---- MODULE Spec2Model ----
(***************************************************************************)
(* The request instrumentation pipeline of server.js: the JSON body        *)
(* parser, the instrumentation middleware and its res.end override, the    *)
(* four route handlers with their timer continuations, the error-handling  *)
(* middleware and the 404 handler, over the spans, log records and metric  *)
(* instruments they update.                                                *)
(*                                                                         *)
(* JavaScript runs every callback to completion, so one action is one      *)
(* callback: the arrival of a request, the synchronous pass of a request   *)
(* through the middleware chain and its handler, and a timer continuation. *)
(* Requests interleave between callbacks.                                  *)
(***************************************************************************)
EXTENDS Integers, Sequences, FiniteSets, TLC

\* The number of requests one run of the server receives.
MaxRequests == 2

Reqs == 1..MaxRequests

\* The number of direct calls of the logging functions one run makes.
MaxLogCalls == 2

\* Index of the log records emitted on behalf of no request (server startup).
Process == 0

VARIABLES
    listening,         \* app.listen's callback has run
    autoInstrumented,  \* the HTTP auto-instrumentation opens a server span per request
    proc,              \* the process and its OpenTelemetry SDK: running, shutting down, exited
    crashed,           \* an exception left a timer callback uncaught
    phase,             \* per request: idle, parsing, suspended, done, crashed
    input,             \* per request: the request as received
    ctx,               \* per request: the active span of its asynchronous context
    route,             \* per request: req.route?.path, "" while undefined
    res,               \* per request: the response object
    spans,             \* span id -> span
    logs,              \* per request (and Process): the log records emitted
    metrics,           \* <<instrument, labels>> -> accumulated value
    obs,               \* per request: the metric observations it caused
    timers             \* per request: the pending setTimeout callback, if any

vars == <<listening, autoInstrumented, proc, crashed, phase, input, ctx, route, res,
          spans, logs, metrics, obs, timers>>

----------------------------------------------------------------------------
(* Values *)

\* No span: trace.getActiveSpan() returning undefined.
NoSpan == <<>>

\* A JavaScript undefined property of the request body.
Undefined == "<undefined>"

\* The {} object.
EmptyObj == [k \in {} |-> k]

\* {...a, ...b}: the keys of b win.
Merge(a, b) ==
    [k \in DOMAIN a \cup DOMAIN b |-> IF k \in DOMAIN b THEN b[k] ELSE a[k]]

\* !v for the values a body field takes.
Falsy(v) == v \in {Undefined, ""}

\* The places where a call made by a handler may throw.
\*   attrs    the first span.setAttributes of the try block
\*   child    the child span's setAttributes, after the child span was started
\*   respond  the res.json / res.status().json of a synchronous success path
\*   cont     the res.json / res.status().json of a timer continuation
Faults == {"none", "attrs", "child", "respond", "cont"}

Request(method, url, body, name, email, requestId, fault) ==
    [method |-> method, url |-> url, body |-> body, name |-> name,
     email |-> email, requestId |-> requestId, fault |-> fault]

NoRequest == Request("", "", "none", Undefined, Undefined, Undefined, "none")

\* The user ids the server is asked for: an ordinary one, the one the lookup
\* does not find, and one that differs from it as a string only.
UserIds == {"1", "404", "0404"}

UserUrl(id) == "/api/users/" \o id

\* The requests the server is sent: each route, with and without an
\* X-Request-ID header, the validation failures of POST /api/users, a body
\* that is not JSON, an unmatched route, and the faults of each handler.
Inputs ==
    {Request("GET", "/", "none", Undefined, Undefined, Undefined, f) :
        f \in {"none", "attrs"}}
    \cup {Request("GET", "/", "none", Undefined, Undefined, "test_1", "none"),
          Request("GET", "/", "none", Undefined, Undefined, Undefined, "respond")}
    \cup {Request("GET", "/health", "none", Undefined, Undefined, Undefined, f) :
        f \in {"none", "cont"}}
    \cup {Request("GET", "/api/users/1", "none", Undefined, Undefined, Undefined, f) :
        f \in {"none", "child"}}
    \cup {Request("GET", "/api/users/404", "none", Undefined, Undefined, "test_2", "none"),
          Request("GET", "/api/users/0404", "none", Undefined, Undefined, Undefined, "none")}
    \cup {Request("POST", "/api/users", "json", "Alice", "alice@example.com",
                  Undefined, f) : f \in {"none", "child"}}
    \cup {Request("POST", "/api/users", "json", "", "invalid@example.com",
                  "test_3", "none"),
          Request("POST", "/api/users", "json", "Dave", "", Undefined, "respond"),
          Request("POST", "/api/users", "json", "Dave", Undefined, Undefined, "none"),
          Request("POST", "/api/users", "json", Undefined, Undefined, Undefined, "none"),
          Request("POST", "/api/users", "malformed", Undefined, Undefined,
                  Undefined, "none"),
          Request("GET", "/invalid/endpoint", "none", Undefined, Undefined,
                  Undefined, "none"),
          Request("POST", "/invalid/endpoint", "json", "Eve", "eve@example.com",
                  Undefined, "none"),
          Request("POST", "/invalid/endpoint", "malformed", Undefined, Undefined,
                  Undefined, "none")}

\* Express's route table: the path of the route a request matches, "" if none.
MatchRoute(method, url) ==
    CASE method = "GET" /\ url = "/" -> "/"
      [] method = "GET" /\ url = "/health" -> "/health"
      [] method = "GET" /\ url \in {UserUrl(id) : id \in UserIds} -> "/api/users/:id"
      [] method = "POST" /\ url = "/api/users" -> "/api/users"
      [] OTHER -> ""

\* Mutant of ParamId: the id is read as a number, Number(req.params.id).
ParamIdAsNumber(url) ==
    IF url \in {UserUrl("404"), UserUrl("0404")} THEN "404" ELSE "1"

\* req.params.id of a request matched by /api/users/:id.
ParamId(url) == CHOOSE id \in UserIds : UserUrl(id) = url

----------------------------------------------------------------------------
(* The world a callback runs in: the shared state, the active span of the  *)
(* running callback's context, the pipeline stage (kept with each log      *)
(* record), and whether an exception is propagating.                       *)

World(active) ==
    [input |-> input, spans |-> spans, logs |-> logs, metrics |-> metrics,
     obs |-> obs, res |-> res, route |-> route, timers |-> timers,
     active |-> active, stage |-> "entry", exc |-> FALSE, err |-> ""]

AtStage(w, s) == [w EXCEPT !.stage = s]

\* throw: an exception propagates; err keeps the error's message.
Throw(w) == [w EXCEPT !.exc = TRUE]

ThrowError(w, message) == [w EXCEPT !.exc = TRUE, !.err = message]

\* The message of the error a faulty call throws.
ErrorMessage(point) ==
    CASE point = "attrs" -> "attributes rejected"
      [] point = "child" -> "child attributes rejected"
      [] point = "respond" -> "response serialization failed"
      [] point = "cont" -> "response serialization failed in callback"

Caught(w) == [w EXCEPT !.exc = FALSE]

\* A call that throws when the request's fault names it.
MayThrow(w, r, point) ==
    IF ~w.exc /\ w.input[r].fault = point THEN ThrowError(w, ErrorMessage(point))
    ELSE w

----------------------------------------------------------------------------
(* Spans. A span's id is the pair of its request and its name: one request *)
(* starts at most one span of each name.                                   *)

SpanId(r, name) == <<r, name>>

\* The span the HTTP auto-instrumentation opens around a request.
ServerSpan(r) == SpanId(r, "http_server")

NewSpan(r, name, kind, traceId, parent, optParent) ==
    [req |-> r, name |-> name, kind |-> kind, traceId |-> traceId,
     parent |-> parent, optParent |-> optParent, status |-> "unset",
     attributes |-> EmptyObj, exceptions |-> 0, endCalls |-> 0,
     statusAtEnd |-> "unset"]

\* trace.getActiveSpan(): the span of the running callback's context.
GetActiveSpan(w) == w.active

\* tracer.startSpan(name, options): the new span is parented to the span of
\* the active context and joins its trace, or roots a new trace when there
\* is none. optParent keeps the span passed as options.parent.
StartSpan(w, r, name, kind, optParent) ==
    IF w.exc THEN w
    ELSE LET parent == GetActiveSpan(w)
             traceId == IF parent = NoSpan THEN SpanId(r, name)
                        ELSE w.spans[parent].traceId
         IN [w EXCEPT !.spans = (SpanId(r, name) :>
                 NewSpan(r, name, kind, traceId, parent, optParent)) @@ @]

Ended(s) == s.endCalls > 0

\* span.setAttributes(attrs); ignored on an ended span.
SetAttributes(w, id, attrs) ==
    IF w.exc \/ Ended(w.spans[id]) THEN w
    ELSE [w EXCEPT !.spans[id].attributes = Merge(@, attrs)]

\* span.recordException(error); ignored on an ended span.
RecordException(w, id) ==
    IF w.exc \/ Ended(w.spans[id]) THEN w
    ELSE [w EXCEPT !.spans[id].exceptions = @ + 1]

\* span.setStatus({ code }); ignored on an ended span.
SetStatus(w, id, code) ==
    IF w.exc \/ Ended(w.spans[id]) THEN w
    ELSE [w EXCEPT !.spans[id].status = code]

\* span.end(): the first call ends the span with the status it has then.
EndSpan(w, id) ==
    IF w.exc THEN w
    ELSE LET s == w.spans[id]
         IN [w EXCEPT !.spans[id] =
                [s EXCEPT !.endCalls = @ + 1,
                          !.statusAtEnd = IF Ended(s) THEN @ ELSE s.status]]

----------------------------------------------------------------------------
(* Log records *)

SeverityNumber == [INFO |-> 9, WARN |-> 13, ERROR |-> 17]

SeverityText(level) ==
    IF level = SeverityNumber.INFO THEN "INFO"
    ELSE IF level = SeverityNumber.WARN THEN "WARN"
    ELSE IF level = SeverityNumber.ERROR THEN "ERROR"
    ELSE "DEBUG"

\* Mutant of GetTraceContext: the span id is left out.
GetTraceContextWithoutSpanId(w) ==
    LET span == GetActiveSpan(w)
    IN IF span # NoSpan
       THEN [traceId |-> w.spans[span].traceId]
       ELSE EmptyObj

\* getTraceContext(): the ids of the active span, or {}.
GetTraceContext(w) ==
    LET span == GetActiveSpan(w)
    IN IF span # NoSpan
       THEN [traceId |-> w.spans[span].traceId, spanId |-> span]
       ELSE EmptyObj

\* logWithTrace(level, message, attributes), called on behalf of request r
\* (Process for the server itself). The record keeps, beside what the code
\* emits, the attributes the caller supplied, the pipeline stage and the
\* active span at emission.
LogWithTrace(w, r, level, message, attributes) ==
    IF w.exc THEN w
    ELSE LET traceContext == GetTraceContext(w)
         IN [w EXCEPT !.logs[r] = Append(@,
                [severityNumber |-> level,
                 severityText |-> SeverityText(level),
                 body |-> message,
                 attributes |-> Merge(attributes, traceContext),
                 supplied |-> attributes,
                 stage |-> w.stage,
                 active |-> w.active])]

----------------------------------------------------------------------------
(* Metric instruments: accumulators keyed by instrument and label set.     *)

Accumulate(m, key, delta) ==
    IF key \in DOMAIN m THEN [m EXCEPT ![key] = @ + delta]
    ELSE (key :> delta) @@ m

\* counter.add / upDownCounter.add(delta, labels), caused by request r.
MetricAdd(w, r, instrument, delta, labels) ==
    IF w.exc THEN w
    ELSE [w EXCEPT
            !.metrics = Accumulate(@, <<instrument, labels>>, delta),
            !.obs[r] = Append(@, [instrument |-> instrument, delta |-> delta,
                                  labels |-> labels])]

\* histogram.record(value, labels): the accumulator counts the observations.
HistogramRecord(w, r, instrument, labels) ==
    MetricAdd(w, r, instrument, 1, labels)

----------------------------------------------------------------------------
(* The response object *)

NewResponse ==
    [statusCode |-> 200, body |-> <<>>, ended |-> 0, intercepted |-> FALSE,
     sent |-> 0, layers |-> <<>>, endArgs |-> <<>>,
     finalizeArgs |-> <<>>]

\* req.route?.path || req.url
RouteLabel(w, r) == IF w.route[r] # "" THEN w.route[r] ELSE w.input[r].url

\* The response's own end: the response is finalized, with the status code
\* it has then (sent keeps it).
OriginalEnd(w, r) ==
    [w EXCEPT !.res[r].ended = @ + 1, !.res[r].sent = w.res[r].statusCode]

\* Mutant of InstrumentedEnd: the in-flight gauge is not decremented.
InstrumentedEndWithoutDecrement(w, r) ==
    LET statusCode == w.res[r].statusCode
        labels == [method |-> w.input[r].method,
                   status_code |-> ToString(statusCode),
                   route |-> RouteLabel(w, r)]
        w1 == MetricAdd(w, r, "http_requests_total", 1, labels)
        w2 == HistogramRecord(w1, r, "http_request_duration_ms", labels)
    IN OriginalEnd(w2, r)

\* Mutant of InstrumentedEnd: the status code is the one the response had
\* when the middleware ran, before any handler set it.
InstrumentedEndWithEntryStatus(w, r) ==
    LET statusCode == NewResponse.statusCode
        labels == [method |-> w.input[r].method,
                   status_code |-> ToString(statusCode),
                   route |-> RouteLabel(w, r)]
        w1 == MetricAdd(w, r, "http_requests_total", 1, labels)
        w2 == HistogramRecord(w1, r, "http_request_duration_ms", labels)
        w3 == MetricAdd(w2, r, "http_requests_in_flight", -1,
                        [method |-> w.input[r].method, route |-> RouteLabel(w, r)])
    IN OriginalEnd(w3, r)

\* The res.end installed by the instrumentation middleware.
InstrumentedEnd(w, r) ==
    LET statusCode == w.res[r].statusCode
        labels == [method |-> w.input[r].method,
                   status_code |-> ToString(statusCode),
                   route |-> RouteLabel(w, r)]
        w1 == MetricAdd(w, r, "http_requests_total", 1, labels)
        w2 == HistogramRecord(w1, r, "http_request_duration_ms", labels)
        w3 == MetricAdd(w2, r, "http_requests_in_flight", -1,
                        [method |-> w.input[r].method, route |-> RouteLabel(w, r)])
    IN OriginalEnd(w3, r)

\* res.end(...), through the override when one is installed.
ResEnd(w, r) ==
    IF w.res[r].intercepted THEN InstrumentedEnd(AtStage(w, "finalize"), r)
    ELSE OriginalEnd(w, r)

\* res.status(code)
ResStatus(w, r, code) ==
    IF w.exc THEN w ELSE [w EXCEPT !.res[r].statusCode = code]

\* res.json(body): throws once the response has been sent.
ResJson(w, r, body) ==
    IF w.exc THEN w
    ELSE IF w.res[r].ended > 0 THEN ThrowError(w, "headers already sent")
    ELSE AtStage(ResEnd([w EXCEPT !.res[r].body = body], r), w.stage)

----------------------------------------------------------------------------
(* Timers *)

NoTimer == [kind |-> "none", active |-> NoSpan]

\* setTimeout(callback, ms): the callback keeps the context it was
\* scheduled in (the context manager binds it to the continuation).
SetTimeout(w, r, kind) ==
    IF w.exc THEN w
    ELSE [w EXCEPT !.timers[r] = [kind |-> kind, active |-> w.active]]

\* Mutant of ResumeContext: the active span is kept in one process-wide
\* slot, which every arriving request overwrites.
ResumeContextOfLastArrival(t) ==
    ctx[CHOOSE r \in Reqs :
            /\ phase[r] # "idle"
            /\ \A q \in Reqs : phase[q] # "idle" => q <= r]

\* The active span a timer callback runs with.
ResumeContext(t) == t.active

----------------------------------------------------------------------------
(* server.js: the instrumentation middleware *)

\* The request id the middleware generates: `req_${Date.now()}_${random}`.
GeneratedId(r) == "req_" \o ToString(r)

\* req.get('X-Request-ID') || generated
RequestId(w, r) ==
    IF Falsy(w.input[r].requestId) THEN GeneratedId(r) ELSE w.input[r].requestId

\* Mutant of InstrumentationMiddleware: the in-flight gauge is not
\* incremented on entry.
InstrumentationMiddlewareWithoutIncrement(w, r) ==
    LET span == GetActiveSpan(w)
        requestId == RequestId(w, r)
        w1 == IF span # NoSpan
              THEN SetAttributes(w, span,
                       ("http.user_agent" :> "unknown")
                       @@ ("http.request_id" :> requestId))
              ELSE w
        w3 == LogWithTrace(w1, r, SeverityNumber.INFO, "Incoming HTTP request",
                           [method |-> w.input[r].method, url |-> w.input[r].url,
                            userAgent |-> "unknown", requestId |-> requestId])
    IN [w3 EXCEPT !.res[r].intercepted = TRUE]

InstrumentationMiddleware(w, r) ==
    LET span == GetActiveSpan(w)
        requestId == RequestId(w, r)
        w1 == IF span # NoSpan
              THEN SetAttributes(w, span,
                       ("http.user_agent" :> "unknown")
                       @@ ("http.request_id" :> requestId))
              ELSE w
        w2 == MetricAdd(w1, r, "http_requests_in_flight", 1,
                        [method |-> w.input[r].method, route |-> RouteLabel(w1, r)])
        w3 == LogWithTrace(w2, r, SeverityNumber.INFO, "Incoming HTTP request",
                           [method |-> w.input[r].method, url |-> w.input[r].url,
                            userAgent |-> "unknown", requestId |-> requestId])
    IN [w3 EXCEPT !.res[r].intercepted = TRUE]

----------------------------------------------------------------------------
(* server.js: GET / *)

RootSpan(r) == SpanId(r, "handle_root_request")

RootTry(w, r) ==
    LET span == RootSpan(r)
        w1 == SetAttributes(MayThrow(w, r, "attrs"), span,
                  ("custom.endpoint" :> "root") @@ ("custom.method" :> "GET"))
        w2 == LogWithTrace(w1, r, SeverityNumber.INFO, "Processing root request",
                           [endpoint |-> "root", method |-> "GET"])
        w3 == ResJson(MayThrow(w2, r, "respond"), r,
                      <<"message", "Hello from OpenTelemetry instrumented server!">>)
        w4 == LogWithTrace(w3, r, SeverityNumber.INFO,
                           "Root request completed successfully",
                           [endpoint |-> "root", statusCode |-> 200])
    IN SetStatus(w4, span, "ok")

\* Mutant of RootCatch: the catch block ends the span, as the other
\* handlers' catch blocks do, although the finally block ends it too.
RootCatchEndingSpan(w, r) ==
    LET span == RootSpan(r)
        w1 == LogWithTrace(w, r, SeverityNumber.ERROR, "Error processing root request",
                           [endpoint |-> "root", error |-> w.err])
        w2 == RecordException(w1, span)
        w3 == SetStatus(w2, span, "error")
        w4 == ResJson(ResStatus(w3, r, 500), r, <<"error", "Internal server error">>)
    IN EndSpan(w4, span)

\* Mutant of RootCatch: the response carries the error's message.
RootCatchSendingMessage(w, r) ==
    LET span == RootSpan(r)
        w1 == LogWithTrace(w, r, SeverityNumber.ERROR, "Error processing root request",
                           [endpoint |-> "root", error |-> w.err])
        w2 == RecordException(w1, span)
        w3 == SetStatus(w2, span, "error")
    IN ResJson(ResStatus(w3, r, 500), r, <<"error", w.err>>)

RootCatch(w, r) ==
    LET span == RootSpan(r)
        w1 == LogWithTrace(w, r, SeverityNumber.ERROR, "Error processing root request",
                           [endpoint |-> "root", error |-> w.err])
        w2 == RecordException(w1, span)
        w3 == SetStatus(w2, span, "error")
    IN ResJson(ResStatus(w3, r, 500), r, <<"error", "Internal server error">>)

\* try { ... } catch { ... } finally { span.end() }
HandleRoot(w, r) ==
    LET w0 == StartSpan(w, r, "handle_root_request", "handler", NoSpan)
        t == RootTry(w0, r)
        c == IF t.exc THEN RootCatch(Caught(t), r) ELSE t
        f == EndSpan(Caught(c), RootSpan(r))
    IN IF c.exc THEN Throw(f) ELSE f

----------------------------------------------------------------------------
(* server.js: GET /health *)

HealthSpan(r) == SpanId(r, "health_check")

HealthChildSpan(r) == SpanId(r, "perform_health_checks")

HealthTry(w, r) ==
    LET span == HealthSpan(r)
        w1 == SetAttributes(MayThrow(w, r, "attrs"), span,
                  ("custom.endpoint" :> "health") @@ ("custom.check_type" :> "basic"))
        w2 == LogWithTrace(w1, r, SeverityNumber.INFO, "Starting health check",
                           [endpoint |-> "health", checkType |-> "basic"])
        w3 == StartSpan(w2, r, "perform_health_checks", "child", span)
    IN SetTimeout(w3, r, "health")

HealthCatch(w, r) ==
    LET span == HealthSpan(r)
        w1 == LogWithTrace(w, r, SeverityNumber.ERROR, "Health check failed",
                           [endpoint |-> "health", error |-> w.err])
        w2 == RecordException(w1, span)
        w3 == SetStatus(w2, span, "error")
        w4 == ResJson(ResStatus(w3, r, 500), r, <<"error", "Health check failed">>)
    IN EndSpan(w4, span)

HandleHealth(w, r) ==
    LET w0 == StartSpan(w, r, "health_check", "handler", NoSpan)
        t == HealthTry(w0, r)
    IN IF t.exc THEN HealthCatch(Caught(t), r) ELSE t

\* The setTimeout callback of GET /health.
HealthContinuation(w, r) ==
    LET span == HealthSpan(r)
        childSpan == HealthChildSpan(r)
        w1 == SetAttributes(w, childSpan,
                  ("health.database" :> "ok") @@ ("health.external_service" :> "ok"))
        w2 == EndSpan(w1, childSpan)
        w3 == SetAttributes(w2, span, ("health.check_duration_ms" :> "duration"))
        w4 == HistogramRecord(w3, r, "health_check_duration_ms", [status |-> "healthy"])
        w5 == LogWithTrace(w4, r, SeverityNumber.INFO, "Health checks completed",
                           [endpoint |-> "health", database |-> "ok",
                            externalService |-> "ok"])
        w6 == ResJson(MayThrow(w5, r, "cont"), r, <<"status", "healthy">>)
        w7 == LogWithTrace(w6, r, SeverityNumber.INFO,
                           "Health check completed successfully",
                           [endpoint |-> "health", statusCode |-> 200])
        w8 == SetStatus(w7, span, "ok")
    IN EndSpan(w8, span)

----------------------------------------------------------------------------
(* server.js: GET /api/users/:id *)

GetUserSpan(r) == SpanId(r, "get_user_by_id")

LookupSpan(r) == SpanId(r, "database_lookup")

GetUserTry(w, r) ==
    LET span == GetUserSpan(r)
        userId == ParamId(w.input[r].url)
        w1 == SetAttributes(MayThrow(w, r, "attrs"), span,
                  ("custom.endpoint" :> "get_user") @@ ("user.id" :> userId))
        w2 == LogWithTrace(w1, r, SeverityNumber.INFO, "Looking up user by ID",
                           [endpoint |-> "get_user", userId |-> userId])
        w3 == StartSpan(w2, r, "database_lookup", "child", span)
        w4 == SetAttributes(MayThrow(w3, r, "child"), LookupSpan(r),
                  ("db.operation" :> "SELECT") @@ ("db.table" :> "users")
                  @@ ("db.query_id" :> userId))
    IN SetTimeout(w4, r, "get_user")

\* Mutant of GetUserCatch: the catch block answers without recording the
\* exception on the span.
GetUserCatchWithoutException(w, r) ==
    LET span == GetUserSpan(r)
        w1 == LogWithTrace(w, r, SeverityNumber.ERROR, "Error looking up user",
                           [endpoint |-> "get_user", userId |-> ParamId(w.input[r].url),
                            error |-> w.err])
        w3 == SetStatus(w1, span, "error")
        w4 == ResJson(ResStatus(w3, r, 500), r, <<"error", "Internal server error">>)
    IN EndSpan(w4, span)

GetUserCatch(w, r) ==
    LET span == GetUserSpan(r)
        w1 == LogWithTrace(w, r, SeverityNumber.ERROR, "Error looking up user",
                           [endpoint |-> "get_user", userId |-> ParamId(w.input[r].url),
                            error |-> w.err])
        w2 == RecordException(w1, span)
        w3 == SetStatus(w2, span, "error")
        w4 == ResJson(ResStatus(w3, r, 500), r, <<"error", "Internal server error">>)
    IN EndSpan(w4, span)

HandleGetUser(w, r) ==
    LET w0 == StartSpan(w, r, "get_user_by_id", "handler", NoSpan)
        t == GetUserTry(w0, r)
    IN IF t.exc THEN GetUserCatch(Caught(t), r) ELSE t

\* The setTimeout callback of GET /api/users/:id.
GetUserContinuation(w, r) ==
    LET span == GetUserSpan(r)
        userId == ParamId(w.input[r].url)
        w1 == EndSpan(w, LookupSpan(r))
        notFound ==
            LET n1 == SetAttributes(w1, span, ("user.found" :> FALSE))
                n2 == MetricAdd(n1, r, "user_operations_total", 1,
                                [operation |-> "get_user", status |-> "not_found"])
                n3 == LogWithTrace(n2, r, SeverityNumber.WARN, "User not found",
                                   [endpoint |-> "get_user", userId |-> userId,
                                    statusCode |-> 404])
                n4 == ResJson(MayThrow(ResStatus(n3, r, 404), r, "cont"), r,
                              <<"error", "User not found">>)
            IN SetStatus(n4, span, "error")
        found ==
            LET f1 == SetAttributes(w1, span,
                          ("user.found" :> TRUE) @@ ("user.name" :> <<"User", userId>>))
                f2 == MetricAdd(f1, r, "user_operations_total", 1,
                                [operation |-> "get_user", status |-> "success"])
                f3 == LogWithTrace(f2, r, SeverityNumber.INFO, "User found successfully",
                                   [endpoint |-> "get_user", userId |-> userId,
                                    statusCode |-> 200])
                f4 == ResJson(MayThrow(f3, r, "cont"), r, <<"user", userId>>)
            IN SetStatus(f4, span, "ok")
    IN EndSpan(IF userId = "404" THEN notFound ELSE found, span)

----------------------------------------------------------------------------
(* server.js: POST /api/users *)

CreateUserSpan(r) == SpanId(r, "create_user")

InsertSpan(r) == SpanId(r, "database_insert")

\* Mutant of ValidationFails: only an absent field fails, an empty string
\* passes.
ValidationFailsOnAbsentOnly(name, email) == name = Undefined \/ email = Undefined

\* if (!name || !email)
ValidationFails(name, email) == Falsy(name) \/ Falsy(email)

\* Mutant of MissingField: the email is looked at first.
MissingFieldPreferringEmail(name, email) == IF Falsy(email) THEN "email" ELSE "name"

\* !name ? 'name' : 'email'
MissingField(name, email) == IF Falsy(name) THEN "name" ELSE "email"

\* Mutant of CreateUserRejected: the validation failure is not counted as
\* a user operation.
CreateUserRejectedWithoutCount(w, r) ==
    LET span == CreateUserSpan(r)
        missingField == MissingField(w.input[r].name, w.input[r].email)
        w1 == SetAttributes(w, span,
                  ("validation.failed" :> TRUE)
                  @@ ("validation.missing_fields" :> missingField))
        w3 == LogWithTrace(w1, r, SeverityNumber.WARN, "User creation validation failed",
                           [endpoint |-> "create_user", missingField |-> missingField,
                            statusCode |-> 400])
        w4 == ResJson(MayThrow(ResStatus(w3, r, 400), r, "respond"), r,
                      <<"error", "Name and email are required">>)
        w5 == SetStatus(w4, span, "error")
    IN EndSpan(w5, span)

\* The validation branch, up to its return.
CreateUserRejected(w, r) ==
    LET span == CreateUserSpan(r)
        missingField == MissingField(w.input[r].name, w.input[r].email)
        w1 == SetAttributes(w, span,
                  ("validation.failed" :> TRUE)
                  @@ ("validation.missing_fields" :> missingField))
        w2 == MetricAdd(w1, r, "user_operations_total", 1,
                        [operation |-> "create_user", status |-> "validation_failed"])
        w3 == LogWithTrace(w2, r, SeverityNumber.WARN, "User creation validation failed",
                           [endpoint |-> "create_user", missingField |-> missingField,
                            statusCode |-> 400])
        w4 == ResJson(MayThrow(ResStatus(w3, r, 400), r, "respond"), r,
                      <<"error", "Name and email are required">>)
        w5 == SetStatus(w4, span, "error")
    IN EndSpan(w5, span)

\* The rest of the try block: the insert span and its timer.
CreateUserAccepted(w, r) ==
    LET w1 == StartSpan(w, r, "database_insert", "child", CreateUserSpan(r))
        w2 == SetAttributes(MayThrow(w1, r, "child"), InsertSpan(r),
                  ("db.operation" :> "INSERT") @@ ("db.table" :> "users"))
    IN SetTimeout(w2, r, "create_user")

CreateUserTry(w, r) ==
    LET span == CreateUserSpan(r)
        name == w.input[r].name
        email == w.input[r].email
        w1 == SetAttributes(MayThrow(w, r, "attrs"), span,
                  ("custom.endpoint" :> "create_user")
                  @@ ("user.name" :> IF Falsy(name) THEN "unknown" ELSE name)
                  @@ ("user.email" :> IF Falsy(email) THEN "unknown" ELSE email))
        w2 == LogWithTrace(w1, r, SeverityNumber.INFO, "Creating new user",
                  [endpoint |-> "create_user",
                   name |-> IF Falsy(name) THEN "missing" ELSE name,
                   email |-> IF Falsy(email) THEN "missing" ELSE email])
    IN IF ValidationFails(name, email) THEN CreateUserRejected(w2, r)
       ELSE CreateUserAccepted(w2, r)

CreateUserCatch(w, r) ==
    LET span == CreateUserSpan(r)
        w1 == LogWithTrace(w, r, SeverityNumber.ERROR, "Error creating user",
                           [endpoint |-> "create_user", error |-> w.err])
        w2 == RecordException(w1, span)
        w3 == SetStatus(w2, span, "error")
        w4 == ResJson(ResStatus(w3, r, 500), r, <<"error", "Internal server error">>)
    IN EndSpan(w4, span)

HandleCreateUser(w, r) ==
    LET w0 == StartSpan(w, r, "create_user", "handler", NoSpan)
        t == CreateUserTry(w0, r)
    IN IF t.exc THEN CreateUserCatch(Caught(t), r) ELSE t

\* The setTimeout callback of POST /api/users.
CreateUserContinuation(w, r) ==
    LET span == CreateUserSpan(r)
        w1 == EndSpan(w, InsertSpan(r))
        w2 == SetAttributes(w1, span,
                  ("user.created_id" :> "id") @@ ("validation.passed" :> TRUE))
        w3 == MetricAdd(w2, r, "user_operations_total", 1,
                        [operation |-> "create_user", status |-> "success"])
        w4 == LogWithTrace(w3, r, SeverityNumber.INFO, "User created successfully",
                           [endpoint |-> "create_user", name |-> w.input[r].name,
                            email |-> w.input[r].email, statusCode |-> 201])
        w5 == ResJson(MayThrow(ResStatus(w4, r, 201), r, "cont"), r,
                      <<"user", w.input[r].name>>)
        w6 == SetStatus(w5, span, "ok")
    IN EndSpan(w6, span)

----------------------------------------------------------------------------
(* server.js: the error-handling middleware and the 404 handler *)

ErrorMiddleware(w, r) ==
    LET span == GetActiveSpan(w)
        w1 == IF span # NoSpan
              THEN SetStatus(RecordException(w, span), span, "error")
              ELSE w
        w2 == LogWithTrace(w1, r, SeverityNumber.ERROR, "Unhandled error occurred",
                           [error |-> w.err, stack |-> <<"stack", w.err>>,
                            url |-> w.input[r].url, method |-> w.input[r].method])
    IN ResJson(ResStatus(w2, r, 500), r, <<"error", "Internal server error">>)

\* Mutant of NotFoundHandler: span.setAttributes is called without the
\* if (span) guard, and throws a TypeError when there is no span.
NotFoundHandlerUnguarded(w, r) ==
    LET span == GetActiveSpan(w)
        w1 == IF span # NoSpan
              THEN SetAttributes(w, span,
                       ("http.status_code" :> 404) @@ ("custom.not_found" :> TRUE))
              ELSE ThrowError(w, "Cannot read properties of undefined")
        w2 == LogWithTrace(w1, r, SeverityNumber.WARN, "Route not found",
                           [url |-> w.input[r].url, method |-> w.input[r].method,
                            statusCode |-> 404])
    IN ResJson(ResStatus(w2, r, 404), r, <<"error", "Not found">>)

NotFoundHandler(w, r) ==
    LET span == GetActiveSpan(w)
        w1 == IF span # NoSpan
              THEN SetAttributes(w, span,
                       ("http.status_code" :> 404) @@ ("custom.not_found" :> TRUE))
              ELSE w
        w2 == LogWithTrace(w1, r, SeverityNumber.WARN, "Route not found",
                           [url |-> w.input[r].url, method |-> w.input[r].method,
                            statusCode |-> 404])
    IN ResJson(ResStatus(w2, r, 404), r, <<"error", "Not found">>)

----------------------------------------------------------------------------
(* server.js: the middleware chain, in registration order *)

\* The route handler Express calls for a matched route.
RouteHandler(w, r, matched) ==
    CASE matched = "/" -> HandleRoot(w, r)
      [] matched = "/health" -> HandleHealth(w, r)
      [] matched = "/api/users/:id" -> HandleGetUser(w, r)
      [] matched = "/api/users" -> HandleCreateUser(w, r)

\* express.json(), the instrumentation middleware, the routes, the
\* error-handling middleware, the 404 handler. A body the JSON parser
\* rejects goes to the error-handling middleware directly, and so does an
\* exception that leaves a handler.
Pipeline(w, r) ==
    IF w.input[r].body = "malformed"
    THEN ErrorMiddleware(AtStage([w EXCEPT !.err = "Unexpected end of JSON input"],
                                 "error"), r)
    ELSE LET m == InstrumentationMiddleware(AtStage(w, "entry"), r)
             matched == MatchRoute(w.input[r].method, w.input[r].url)
             routed == [m EXCEPT !.route[r] = matched]
             h == IF matched # ""
                  THEN RouteHandler(AtStage(routed, "handler"), r, matched)
                  ELSE NotFoundHandler(AtStage(routed, "notfound"), r)
         IN IF h.exc THEN ErrorMiddleware(AtStage(Caught(h), "error"), r) ELSE h

\* The callback a pending timer runs.
Continuation(w, r, kind) ==
    CASE kind = "health" -> HealthContinuation(w, r)
      [] kind = "get_user" -> GetUserContinuation(w, r)
      [] kind = "create_user" -> CreateUserContinuation(w, r)

----------------------------------------------------------------------------
(* The state machine *)

\* The process after tracing was set up by the given module: the SDK is
\* started, nothing is buffered, no signal was received.
NewProcess(module) ==
    [module |-> module, signal |-> "none", shutdown |-> "none",
     buffered |-> 0, exported |-> 0, exited |-> FALSE]

ServerInit ==
    /\ listening = FALSE
    /\ autoInstrumented \in BOOLEAN
    /\ crashed = FALSE
    /\ phase = [r \in Reqs |-> "idle"]
    /\ input = [r \in Reqs |-> NoRequest]
    /\ ctx = [r \in Reqs |-> NoSpan]
    /\ route = [r \in Reqs |-> ""]
    /\ res = [r \in Reqs |-> NewResponse]
    /\ spans = EmptyObj
    /\ logs = [r \in {Process} \cup Reqs |-> <<>>]
    /\ metrics = EmptyObj
    /\ obs = [r \in Reqs |-> <<>>]
    /\ timers = [r \in Reqs |-> NoTimer]

Init == ServerInit /\ proc = NewProcess("tracing.js")

\* What a callback leaves behind.
Commit(w) ==
    /\ input' = w.input
    /\ spans' = w.spans
    /\ logs' = w.logs
    /\ metrics' = w.metrics
    /\ obs' = w.obs
    /\ res' = w.res
    /\ route' = w.route
    /\ timers' = w.timers

\* Where a request stands when the chain returns: waiting for its timer, or
\* answered.
PhaseAfter(w, r) == IF w.timers[r] # NoTimer THEN "suspended" ELSE "done"

\* app.listen's callback: the startup log, emitted outside any request.
Listen ==
    /\ ~listening
    /\ listening' = TRUE
    /\ Commit(LogWithTrace(World(NoSpan), Process, SeverityNumber.INFO,
                           "HTTP server started successfully",
                           [port |-> "port", environment |-> "development"]))
    /\ UNCHANGED <<autoInstrumented, proc, crashed, phase, ctx>>

\* The world request r, just received as i, starts in: with the HTTP
\* auto-instrumentation on, its server span is the active span of the
\* request's context.
Received(r, i) ==
    LET active == IF autoInstrumented THEN ServerSpan(r) ELSE NoSpan
    IN [World(active) EXCEPT
          !.input[r] = i,
          !.spans = IF autoInstrumented
                    THEN (ServerSpan(r) :> NewSpan(r, "http_server", "server",
                                                   ServerSpan(r), NoSpan, NoSpan)) @@ @
                    ELSE @]

\* A request arrives; requests are numbered in arrival order. A request
\* without a body passes through the middleware chain and its handler's
\* synchronous part in the same callback; a body is read asynchronously.
Arrive(r, i) ==
    /\ listening /\ ~crashed
    /\ phase[r] = "idle"
    /\ IF r = 1 THEN TRUE ELSE phase[r - 1] # "idle"
    /\ LET w0 == Received(r, i)
           w == IF i.body = "none" THEN Pipeline(w0, r) ELSE w0
       IN /\ Commit(w)
          /\ ctx' = [ctx EXCEPT ![r] = w0.active]
          /\ phase' = [phase EXCEPT ![r] =
                          IF i.body = "none" THEN PhaseAfter(w, r) ELSE "parsing"]
    /\ UNCHANGED <<listening, autoInstrumented, proc, crashed>>

\* The body has been read: the request passes through the middleware chain
\* and its handler's synchronous part.
Dispatch(r) ==
    /\ ~crashed
    /\ phase[r] = "parsing"
    /\ LET w == Pipeline(World(ctx[r]), r)
       IN /\ Commit(w)
          /\ phase' = [phase EXCEPT ![r] = PhaseAfter(w, r)]
    /\ UNCHANGED <<listening, autoInstrumented, proc, crashed, ctx>>

\* The request's timer fires and its continuation runs. An exception that
\* leaves the continuation is uncaught and ends the process.
TimerFire(r) ==
    /\ ~crashed
    /\ phase[r] = "suspended"
    /\ LET t == timers[r]
           w0 == [AtStage(World(ResumeContext(t)), "continuation")
                     EXCEPT !.timers[r] = NoTimer]
           w == Continuation(w0, r, t.kind)
       IN /\ Commit(w)
          /\ crashed' = w.exc
          /\ phase' = [phase EXCEPT ![r] = IF w.exc THEN "crashed" ELSE "done"]
    /\ UNCHANGED <<listening, autoInstrumented, proc, ctx>>

Next ==
    \/ Listen
    \/ \E r \in Reqs, i \in Inputs : Arrive(r, i)
    \/ \E r \in Reqs : Dispatch(r)
    \/ \E r \in Reqs : TimerFire(r)

Spec == Init /\ [][Next]_vars

----------------------------------------------------------------------------
(* What the properties below read *)

\* The response of request r has been finalized: the response's own end ran.
Finalized(r) == res[r].ended > 0

\* The request has entered the middleware chain.
Entered(r) == phase[r] \notin {"idle", "parsing"}

\* The observations request r caused on an instrument, with a given delta.
Observations(r, instrument, delta) ==
    {k \in DOMAIN obs[r] :
        obs[r][k].instrument = instrument /\ obs[r][k].delta = delta}

\* The log records of request r emitted at a pipeline stage.
LogsAt(r, stage) == {k \in DOMAIN logs[r] : logs[r][k].stage = stage}

RECURSIVE SumOf(_, _)
SumOf(f, keys) ==
    IF keys = {} THEN 0
    ELSE LET k == CHOOSE x \in keys : TRUE
         IN f[k] + SumOf(f, keys \ {k})

\* The in-flight gauge summed over its label series.
InFlightTotal ==
    SumOf(metrics, {key \in DOMAIN metrics : key[1] = "http_requests_in_flight"})

\* The spans a route handler started.
HandlerSpans == {id \in DOMAIN spans : spans[id].kind \in {"handler", "child"}}

----------------------------------------------------------------------------
(* Properties *)

\* C1: every request whose response was finalized, by whichever path, has
\* exactly one http_requests_total increment and exactly one
\* http_request_duration_ms observation.
C1_OneCompletionObservationPerResponse ==
    \A r \in Reqs :
        Finalized(r) =>
            /\ Cardinality(Observations(r, "http_requests_total", 1)) = 1
            /\ Cardinality(Observations(r, "http_request_duration_ms", 1)) = 1

\* C2: once every request that entered the pipeline has had its response
\* finalized, the deltas applied to the in-flight gauge sum to zero.
C2_InFlightNetsToZero ==
    (\A r \in Reqs : Entered(r) => Finalized(r)) => InFlightTotal = 0

\* C2 witness: two requests, one answered from a timer continuation, have
\* both been finalized after passing through the instrumentation middleware.
C2_Witness ==
    /\ phase[1] = "done" /\ phase[2] = "done"
    /\ input[1].url = "/health" /\ input[2].url = "/api/users/404"
    /\ Cardinality(Observations(1, "http_requests_in_flight", 1)) = 1
    /\ Cardinality(Observations(2, "http_requests_in_flight", -1)) = 1

\* C3: every request whose response was finalized has exactly one completion
\* log record, emitted at the finalization (the res.end call).
C3_OneCompletionLogAtFinalization ==
    \A r \in Reqs : Finalized(r) => Cardinality(LogsAt(r, "finalize")) = 1

\* C4: a request whose body the JSON parser rejects still gets, when its
\* response is finalized, one http_requests_total increment and one
\* in-flight increment/decrement pair.
C4_ParserRejectionIsAccounted ==
    \A r \in Reqs :
        (input[r].body = "malformed" /\ Finalized(r)) =>
            /\ Cardinality(Observations(r, "http_requests_total", 1)) = 1
            /\ Cardinality(Observations(r, "http_requests_in_flight", 1)) = 1
            /\ Cardinality(Observations(r, "http_requests_in_flight", -1)) = 1

\* C5: a log record emitted on behalf of a request carries no trace id but
\* that of a span of the same request, whatever the interleaving with the
\* other requests; a record of the server itself carries none.
C5_LogsCarryOwnTraceOnly ==
    \A r \in DOMAIN logs : \A k \in DOMAIN logs[r] :
        LET a == logs[r][k].attributes
        IN "traceId" \in DOMAIN a =>
              /\ \E id \in DOMAIN spans : spans[id].traceId = a["traceId"]
              /\ \A id \in DOMAIN spans :
                    spans[id].traceId = a["traceId"] => spans[id].req = r

\* C5 witness: the first request's timer continuation has logged with a
\* trace id while a second request to another endpoint is suspended.
C5_Witness ==
    /\ phase[1] = "done" /\ phase[2] = "suspended"
    /\ input[1].url = "/health" /\ input[2].url = "/api/users/1"
    /\ \E k \in LogsAt(1, "continuation") :
          "traceId" \in DOMAIN logs[1][k].attributes

\* C6: a log record emitted while a span is active carries that span's trace
\* id and span id; a record emitted while none is active carries neither.
C6_LogsCarryActiveSpanIds ==
    \A r \in DOMAIN logs : \A k \in DOMAIN logs[r] :
        LET rec == logs[r][k]
            a == rec.attributes
        IN IF rec.active # NoSpan
           THEN /\ {"traceId", "spanId"} \subseteq DOMAIN a
                /\ a["traceId"] = spans[rec.active].traceId
                /\ a["spanId"] = rec.active
           ELSE {"traceId", "spanId"} \cap DOMAIN a = {}

\* C6 witness: the startup record was emitted with no span active and a
\* handler's record with the request's span active.
C6_Witness ==
    /\ Len(logs[Process]) = 1
    /\ logs[Process][1].active = NoSpan
    /\ \E k \in LogsAt(1, "handler") : logs[1][k].active # NoSpan

\* C7: when a request is over (answered, no timer pending), every span its
\* handler started has been ended.
C7_SpansEndedOnEveryExit ==
    \A id \in HandlerSpans : phase[spans[id].req] = "done" => Ended(spans[id])

\* C8: end() is called at most once on every span.
C8_NoSpanEndedTwice ==
    \A id \in DOMAIN spans : spans[id].endCalls <= 1

\* C8 witness: a validation branch that threw at its response was ended by
\* the catch block, once; and a GET / that threw went through its catch and
\* finally blocks and was ended once.
C8_Witness ==
    /\ input[1].method = "POST" /\ input[1].fault = "respond"
    /\ phase[1] = "done"
    /\ spans[CreateUserSpan(1)].exceptions = 1
    /\ spans[CreateUserSpan(1)].endCalls = 1
    /\ input[2].url = "/" /\ input[2].fault = "attrs" /\ phase[2] = "done"
    /\ spans[RootSpan(2)].exceptions = 1
    /\ spans[RootSpan(2)].endCalls = 1

\* C9: a handler span is never ended while a child span started with it as
\* options.parent is still open.
C9_ChildEndsBeforeParent ==
    \A id \in HandlerSpans :
        (spans[id].kind = "child" /\ Ended(spans[spans[id].optParent]))
            => Ended(spans[id])

\* C10: every span a handler started and ended has status ok or error when
\* it ends.
C10_EndedSpansHaveStatus ==
    \A id \in HandlerSpans :
        Ended(spans[id]) => spans[id].statusAtEnd \in {"ok", "error"}

\* The handler of request r threw inside its try block, and the request is
\* over.
ThrewSynchronously(r) ==
    input[r].fault \in {"attrs", "child", "respond"} /\ phase[r] = "done"

\* The log records of request r of a severity.
LogsOfSeverity(r, level) ==
    {k \in DOMAIN logs[r] : logs[r][k].severityNumber = level}

\* C11: when a handler throws synchronously, the exception is recorded on a
\* span of the request whose status is set to error, an error-level log
\* record is emitted, the response is a 500, and http_requests_total is
\* incremented once and the in-flight gauge incremented once and decremented
\* once.
C11_SynchronousThrowIsAccounted ==
    \A r \in Reqs :
        ThrewSynchronously(r) =>
            /\ \E id \in DOMAIN spans :
                  /\ spans[id].req = r
                  /\ spans[id].exceptions >= 1
                  /\ spans[id].status = "error"
            /\ LogsOfSeverity(r, SeverityNumber.ERROR) # {}
            /\ res[r].statusCode = 500 /\ res[r].ended = 1
            /\ Cardinality(Observations(r, "http_requests_total", 1)) = 1
            /\ Cardinality(Observations(r, "http_requests_in_flight", 1)) = 1
            /\ Cardinality(Observations(r, "http_requests_in_flight", -1)) = 1

\* C11 witness: a GET /api/users/1 whose handler threw after starting its
\* child span was answered 500 by the catch block.
C11_Witness ==
    /\ input[1].url = "/api/users/1" /\ ThrewSynchronously(1)
    /\ spans[GetUserSpan(1)].exceptions = 1
    /\ res[1].statusCode = 500

\* The in-flight deltas request r caused, summed.
InFlightNetOf(r) ==
    Cardinality(Observations(r, "http_requests_in_flight", 1))
        - Cardinality(Observations(r, "http_requests_in_flight", -1))

\* The timer continuation of request r has run.
ContinuationRan(r) ==
    /\ phase[r] \in {"done", "crashed"}
    /\ \E id \in DOMAIN spans : spans[id].req = r /\ spans[id].kind = "child"
    /\ ~ThrewSynchronously(r)

\* C12: an exception raised inside a timer continuation does not leave the
\* request uncaught: the process goes on, the request is answered, the spans
\* of its handler are ended and its in-flight increment is undone.
C12_ContinuationExceptionsAreCaught ==
    /\ ~crashed
    /\ \A r \in Reqs :
          ContinuationRan(r) =>
              /\ Finalized(r)
              /\ \A id \in HandlerSpans : spans[id].req = r => Ended(spans[id])
              /\ InFlightNetOf(r) = 0

\* The span the handler of request r started with tracer.startSpan(name).
HandlerSpanOf(r) ==
    CHOOSE id \in DOMAIN spans : spans[id].req = r /\ spans[id].kind = "handler"

\* The log records a handler emits, in its synchronous part and in its timer
\* continuation: all of them after its startSpan and before its span.end().
HandlerLogs(r) == LogsAt(r, "handler") \cup LogsAt(r, "continuation")

\* C13: every log record a handler emits between starting and ending its
\* span carries the span id of that span.
C13_HandlerLogsCarryHandlerSpanId ==
    \A r \in Reqs : \A k \in HandlerLogs(r) :
        LET a == logs[r][k].attributes
        IN /\ "spanId" \in DOMAIN a
           /\ a["spanId"] = HandlerSpanOf(r)

\* The spans of request r.
SpansOf(r) == {id \in DOMAIN spans : spans[id].req = r}

\* C14: the spans of one request share one trace id, each child span started
\* with { parent: span } has the handler's span as its parent, and no span
\* has a parent or a trace id of another request.
C14_SpansOfARequestFormOneTree ==
    \A r \in Reqs : \A id \in SpansOf(r) :
        /\ \A other \in SpansOf(r) : spans[other].traceId = spans[id].traceId
        /\ spans[id].kind = "child" => spans[id].parent = spans[id].optParent
        /\ spans[id].parent # NoSpan => spans[id].parent \in SpansOf(r)
        /\ \A q \in Reqs \ {r} : \A foreign \in SpansOf(q) :
              spans[foreign].traceId # spans[id].traceId

\* The requests that entered the instrumentation middleware and whose
\* response has not been finalized.
InFlightRequests == {r \in Reqs : res[r].intercepted /\ ~Finalized(r)}

\* C15: in every state the in-flight gauge, summed over its label series,
\* is the number of requests that entered the instrumentation middleware
\* and are not finalized, hence never negative; a request waiting for its
\* timer continuation is among them and has no completion observation.
C15_GaugeCountsUnfinishedRequests ==
    /\ InFlightTotal = Cardinality(InFlightRequests)
    /\ InFlightTotal >= 0
    /\ \A r \in Reqs :
          phase[r] = "suspended" =>
              /\ r \in InFlightRequests
              /\ Observations(r, "http_requests_total", 1) = {}
              /\ Observations(r, "http_request_duration_ms", 1) = {}

\* C15 witness: two requests are suspended on their timers at once and the
\* gauge reads two.
C15_Witness ==
    /\ phase[1] = "suspended" /\ phase[2] = "suspended"
    /\ InFlightTotal = 2

\* Request r is a POST /api/users that has been answered.
CreateUserAnswered(r) ==
    /\ input[r].method = "POST" /\ input[r].url = "/api/users"
    /\ input[r].body = "json"
    /\ phase[r] = "done"

\* The increments request r caused on validation_errors_total for a field.
ValidationErrors(r, field) ==
    {k \in Observations(r, "validation_errors_total", 1) :
        obs[r][k].labels.field = field}

\* C16: a POST /api/users whose email is missing increments
\* validation_errors_total with label field=email by exactly 1.
C16_MissingEmailCountsOneValidationError ==
    \A r \in Reqs :
        (/\ CreateUserAnswered(r)
         /\ ~Falsy(input[r].name) /\ Falsy(input[r].email)
         /\ input[r].fault = "none")
            => Cardinality(ValidationErrors(r, "email")) = 1

\* Request r is a POST /api/users with a JSON body whose name or email is
\* absent or an empty string.
InvalidCreateUser(r) ==
    /\ input[r].method = "POST" /\ input[r].url = "/api/users"
    /\ input[r].body = "json"
    /\ (Falsy(input[r].name) \/ Falsy(input[r].email))

\* C17: for a POST /api/users whose name or email is absent or empty, no
\* database_insert span is ever created and no timer is ever scheduled;
\* once the validation branch has returned, the create_user span has
\* validation.failed = true and status error and was ended exactly once,
\* the response is a 400, and a warning-level log record was emitted.
C17_ValidationFailureIsRejected ==
    \A r \in Reqs :
        InvalidCreateUser(r) =>
            /\ InsertSpan(r) \notin DOMAIN spans
            /\ timers[r] = NoTimer /\ phase[r] # "suspended"
            /\ LogsAt(r, "continuation") = {}
            /\ (phase[r] = "done" /\ input[r].fault = "none") =>
                  LET span == spans[CreateUserSpan(r)]
                  IN /\ "validation.failed" \in DOMAIN span.attributes
                     /\ span.attributes["validation.failed"] = TRUE
                     /\ span.status = "error" /\ span.statusAtEnd = "error"
                     /\ span.endCalls = 1
                     /\ res[r].statusCode = 400 /\ res[r].ended = 1
                     /\ LogsOfSeverity(r, SeverityNumber.WARN) # {}

\* C17 witness: a POST /api/users with an empty name and one with an absent
\* email have both been answered 400.
C17_Witness ==
    /\ InvalidCreateUser(1) /\ input[1].name = "" /\ phase[1] = "done"
    /\ InvalidCreateUser(2) /\ input[2].email = Undefined
    /\ input[2].name = "Dave" /\ phase[2] = "done"
    /\ res[1].statusCode = 400 /\ res[2].statusCode = 400
    /\ spans[CreateUserSpan(2)].endCalls = 1

\* Request r carries malformed input: a body that is not JSON, or a
\* POST /api/users body whose name or email is absent or empty.
MalformedInput(r) == input[r].body = "malformed" \/ InvalidCreateUser(r)

\* C18: a request rejected for malformed input, a body that is not JSON
\* included, is answered with a 4xx status and does not pass through the
\* error-handling middleware.
C18_MalformedInputIsAnswered4xx ==
    \A r \in Reqs :
        (MalformedInput(r) /\ input[r].fault = "none" /\ Finalized(r)) =>
            /\ res[r].statusCode \in 400..499
            /\ LogsAt(r, "error") = {}

\* The increments request r caused on user_operations_total for an
\* operation and a status.
UserOperations(r, operation, status) ==
    {k \in Observations(r, "user_operations_total", 1) :
        /\ obs[r][k].labels.operation = operation
        /\ obs[r][k].labels.status = status}

\* Request r is a GET /api/users/:id whose lookup continuation has answered.
GetUserAnswered(r) ==
    /\ input[r].method = "GET"
    /\ input[r].url \in {UserUrl(id) : id \in UserIds}
    /\ input[r].fault = "none"
    /\ phase[r] = "done"

\* C19: a GET /api/users/:id is answered 404 with body error "User not
\* found", its get_user_by_id span ended with status error and one
\* not_found user operation, exactly when the id is the string 404; for any
\* other id it is answered 200, the span ended with status ok and one
\* success user operation.
C19_NotFoundExactlyForId404 ==
    \A r \in Reqs :
        GetUserAnswered(r) =>
            LET span == spans[GetUserSpan(r)]
                notFound == Cardinality(UserOperations(r, "get_user", "not_found"))
                success == Cardinality(UserOperations(r, "get_user", "success"))
            IN IF input[r].url = "/api/users/404"
               THEN /\ res[r].statusCode = 404
                    /\ res[r].body = <<"error", "User not found">>
                    /\ span.endCalls = 1 /\ span.statusAtEnd = "error"
                    /\ notFound = 1 /\ success = 0
               ELSE /\ res[r].statusCode = 200
                    /\ span.endCalls = 1 /\ span.statusAtEnd = "ok"
                    /\ notFound = 0 /\ success = 1

\* C19 witness: the ids 404 and 0404 have both been looked up and answered,
\* the first 404 and the second 200.
C19_Witness ==
    /\ GetUserAnswered(1) /\ input[1].url = "/api/users/404"
    /\ GetUserAnswered(2) /\ input[2].url = "/api/users/0404"
    /\ res[1].statusCode = 404 /\ res[2].statusCode = 200

\* The completion observations of request r: its http_requests_total
\* increments and its http_request_duration_ms observations.
CompletionObservations(r) ==
    Observations(r, "http_requests_total", 1)
        \cup Observations(r, "http_request_duration_ms", 1)

\* The log records of request r that carry a statusCode attribute.
LogsWithStatusCode(r) ==
    {k \in DOMAIN logs[r] : "statusCode" \in DOMAIN logs[r][k].attributes}

\* Request r is a GET / whose handler ran without throwing.
RootAnswered(r) ==
    /\ input[r].method = "GET" /\ input[r].url = "/"
    /\ input[r].fault = "none"
    /\ phase[r] = "done"

\* C20: a GET / starts and ends handle_root_request with status ok, its
\* completion log record has statusCode 200 and http_requests_total is
\* incremented once, with labels method=GET and status_code=200; and for
\* every request the status_code label of its completion observations is
\* the status code its response was finalized with.
C20_CompletionCarriesTheSentStatus ==
    /\ \A r \in Reqs :
          RootAnswered(r) =>
              /\ RootSpan(r) \in DOMAIN spans
              /\ spans[RootSpan(r)].endCalls = 1
              /\ spans[RootSpan(r)].statusAtEnd = "ok"
              /\ Cardinality(LogsWithStatusCode(r)) = 1
              /\ \A k \in LogsWithStatusCode(r) :
                    logs[r][k].attributes["statusCode"] = 200
              /\ Cardinality(Observations(r, "http_requests_total", 1)) = 1
              /\ \A k \in Observations(r, "http_requests_total", 1) :
                    /\ obs[r][k].labels.method = "GET"
                    /\ obs[r][k].labels.status_code = "200"
    /\ \A r \in Reqs : \A k \in CompletionObservations(r) :
          /\ Finalized(r)
          /\ obs[r][k].labels.status_code = ToString(res[r].sent)

\* C20 witness: a GET / answered 200 and a request answered 404 by the 404
\* handler each have their completion observations.
C20_Witness ==
    /\ RootAnswered(1) /\ res[1].sent = 200
    /\ CompletionObservations(1) # {}
    /\ input[2].url = "/invalid/endpoint" /\ res[2].sent = 404
    /\ CompletionObservations(2) # {}

\* Request r matches no defined route.
Unrouted(r) ==
    /\ phase[r] # "idle"
    /\ MatchRoute(input[r].method, input[r].url) = ""

\* The log records of request r with a given message.
LogsSaying(r, message) == {k \in DOMAIN logs[r] : logs[r][k].body = message}

\* C21: a request that matches no defined route is answered 404 with body
\* error "Not found", has exactly one 'Route not found' log record, of
\* warning level, and custom.not_found = true on its active span if it has
\* one.
C21_UnroutedRequestsAreAnswered404 ==
    \A r \in Reqs :
        (Unrouted(r) /\ Finalized(r)) =>
            /\ res[r].sent = 404
            /\ res[r].body = <<"error", "Not found">>
            /\ Cardinality(LogsSaying(r, "Route not found")) = 1
            /\ \A k \in LogsSaying(r, "Route not found") :
                  logs[r][k].severityNumber = SeverityNumber.WARN
            /\ ctx[r] # NoSpan =>
                  /\ "custom.not_found" \in DOMAIN spans[ctx[r]].attributes
                  /\ spans[ctx[r]].attributes["custom.not_found"] = TRUE

----------------------------------------------------------------------------
(* The earlier server.js kept in the repository (second listing): the same *)
(* routes and spans, without log records and metric instruments. Its       *)
(* middleware only sets the span attributes.                               *)

\* req.get('X-Request-ID') || 'none'
LegacyRequestId(w, r) ==
    IF Falsy(w.input[r].requestId) THEN "none" ELSE w.input[r].requestId

LegacySpanAttributeMiddleware(w, r) ==
    LET span == GetActiveSpan(w)
    IN IF span # NoSpan
       THEN SetAttributes(w, span,
                ("http.user_agent" :> "unknown")
                @@ ("http.request_id" :> LegacyRequestId(w, r)))
       ELSE w

\* The catch block of a handler, up to its response.
LegacyCatch(w, r, span, body) ==
    LET w1 == RecordException(w, span)
        w2 == SetStatus(w1, span, "error")
    IN ResJson(ResStatus(w2, r, 500), r, body)

LegacyHandleRoot(w, r) ==
    LET span == RootSpan(r)
        w0 == StartSpan(w, r, "handle_root_request", "handler", NoSpan)
        w1 == SetAttributes(MayThrow(w0, r, "attrs"), span,
                  ("custom.endpoint" :> "root") @@ ("custom.method" :> "GET"))
        w2 == ResJson(MayThrow(w1, r, "respond"), r,
                      <<"message", "Hello from OpenTelemetry instrumented server!">>)
        t == SetStatus(w2, span, "ok")
        c == IF t.exc
             THEN LegacyCatch(Caught(t), r, span, <<"error", "Internal server error">>)
             ELSE t
        f == EndSpan(Caught(c), span)
    IN IF c.exc THEN Throw(f) ELSE f

LegacyHandleHealth(w, r) ==
    LET span == HealthSpan(r)
        w0 == StartSpan(w, r, "health_check", "handler", NoSpan)
        w1 == SetAttributes(MayThrow(w0, r, "attrs"), span,
                  ("custom.endpoint" :> "health") @@ ("custom.check_type" :> "basic"))
        w2 == StartSpan(w1, r, "perform_health_checks", "child", span)
        t == SetTimeout(w2, r, "health")
    IN IF t.exc
       THEN EndSpan(LegacyCatch(Caught(t), r, span, <<"error", "Health check failed">>),
                    span)
       ELSE t

LegacyHealthContinuation(w, r) ==
    LET span == HealthSpan(r)
        childSpan == HealthChildSpan(r)
        w1 == SetAttributes(w, childSpan,
                  ("health.database" :> "ok") @@ ("health.external_service" :> "ok"))
        w2 == EndSpan(w1, childSpan)
        w3 == SetAttributes(w2, span, ("health.check_duration_ms" :> "duration"))
        w4 == ResJson(MayThrow(w3, r, "cont"), r, <<"status", "healthy">>)
        w5 == SetStatus(w4, span, "ok")
    IN EndSpan(w5, span)

LegacyHandleGetUser(w, r) ==
    LET span == GetUserSpan(r)
        userId == ParamId(w.input[r].url)
        w0 == StartSpan(w, r, "get_user_by_id", "handler", NoSpan)
        w1 == SetAttributes(MayThrow(w0, r, "attrs"), span,
                  ("custom.endpoint" :> "get_user") @@ ("user.id" :> userId))
        w2 == StartSpan(w1, r, "database_lookup", "child", span)
        w3 == SetAttributes(MayThrow(w2, r, "child"), LookupSpan(r),
                  ("db.operation" :> "SELECT") @@ ("db.table" :> "users")
                  @@ ("db.query_id" :> userId))
        t == SetTimeout(w3, r, "get_user")
    IN IF t.exc
       THEN EndSpan(LegacyCatch(Caught(t), r, span, <<"error", "Internal server error">>),
                    span)
       ELSE t

LegacyGetUserContinuation(w, r) ==
    LET span == GetUserSpan(r)
        userId == ParamId(w.input[r].url)
        w1 == EndSpan(w, LookupSpan(r))
        notFound ==
            LET n1 == SetAttributes(w1, span, ("user.found" :> FALSE))
                n2 == ResJson(MayThrow(ResStatus(n1, r, 404), r, "cont"), r,
                              <<"error", "User not found">>)
            IN SetStatus(n2, span, "error")
        found ==
            LET f1 == SetAttributes(w1, span,
                          ("user.found" :> TRUE) @@ ("user.name" :> <<"User", userId>>))
                f2 == ResJson(MayThrow(f1, r, "cont"), r, <<"user", userId>>)
            IN SetStatus(f2, span, "ok")
    IN EndSpan(IF userId = "404" THEN notFound ELSE found, span)

LegacyHandleCreateUser(w, r) ==
    LET span == CreateUserSpan(r)
        name == w.input[r].name
        email == w.input[r].email
        w0 == StartSpan(w, r, "create_user", "handler", NoSpan)
        w1 == SetAttributes(MayThrow(w0, r, "attrs"), span,
                  ("custom.endpoint" :> "create_user")
                  @@ ("user.name" :> IF Falsy(name) THEN "unknown" ELSE name)
                  @@ ("user.email" :> IF Falsy(email) THEN "unknown" ELSE email))
        rejected ==
            LET v1 == SetAttributes(w1, span,
                          ("validation.failed" :> TRUE)
                          @@ ("validation.missing_fields" :> MissingField(name, email)))
                v2 == ResJson(MayThrow(ResStatus(v1, r, 400), r, "respond"), r,
                              <<"error", "Name and email are required">>)
                v3 == SetStatus(v2, span, "error")
            IN EndSpan(v3, span)
        accepted ==
            LET a1 == StartSpan(w1, r, "database_insert", "child", span)
                a2 == SetAttributes(MayThrow(a1, r, "child"), InsertSpan(r),
                          ("db.operation" :> "INSERT") @@ ("db.table" :> "users"))
            IN SetTimeout(a2, r, "create_user")
        t == IF ValidationFails(name, email) THEN rejected ELSE accepted
    IN IF t.exc
       THEN EndSpan(LegacyCatch(Caught(t), r, span, <<"error", "Internal server error">>),
                    span)
       ELSE t

LegacyCreateUserContinuation(w, r) ==
    LET span == CreateUserSpan(r)
        w1 == EndSpan(w, InsertSpan(r))
        w2 == SetAttributes(w1, span,
                  ("user.created_id" :> "id") @@ ("validation.passed" :> TRUE))
        w3 == ResJson(MayThrow(ResStatus(w2, r, 201), r, "cont"), r,
                      <<"user", w.input[r].name>>)
        w4 == SetStatus(w3, span, "ok")
    IN EndSpan(w4, span)

\* console.error, then the 500.
LegacyErrorMiddleware(w, r) ==
    LET span == GetActiveSpan(w)
        w1 == IF span # NoSpan
              THEN SetStatus(RecordException(w, span), span, "error")
              ELSE w
    IN ResJson(ResStatus(w1, r, 500), r, <<"error", "Internal server error">>)

LegacyNotFoundHandler(w, r) ==
    LET span == GetActiveSpan(w)
        w1 == IF span # NoSpan
              THEN SetAttributes(w, span,
                       ("http.status_code" :> 404) @@ ("custom.not_found" :> TRUE))
              ELSE w
    IN ResJson(ResStatus(w1, r, 404), r, <<"error", "Not found">>)

LegacyRouteHandler(w, r, matched) ==
    CASE matched = "/" -> LegacyHandleRoot(w, r)
      [] matched = "/health" -> LegacyHandleHealth(w, r)
      [] matched = "/api/users/:id" -> LegacyHandleGetUser(w, r)
      [] matched = "/api/users" -> LegacyHandleCreateUser(w, r)

\* express.json(), the span-attribute middleware, the routes, the
\* error-handling middleware, the 404 handler.
LegacyPipeline(w, r) ==
    IF w.input[r].body = "malformed"
    THEN LegacyErrorMiddleware(AtStage(w, "error"), r)
    ELSE LET m == LegacySpanAttributeMiddleware(AtStage(w, "entry"), r)
             matched == MatchRoute(w.input[r].method, w.input[r].url)
             routed == [m EXCEPT !.route[r] = matched]
             h == IF matched # ""
                  THEN LegacyRouteHandler(AtStage(routed, "handler"), r, matched)
                  ELSE LegacyNotFoundHandler(AtStage(routed, "notfound"), r)
         IN IF h.exc THEN LegacyErrorMiddleware(AtStage(Caught(h), "error"), r) ELSE h

LegacyContinuation(w, r, kind) ==
    CASE kind = "health" -> LegacyHealthContinuation(w, r)
      [] kind = "get_user" -> LegacyGetUserContinuation(w, r)
      [] kind = "create_user" -> LegacyCreateUserContinuation(w, r)

\* app.listen's callback: console.log only.
LegacyListen ==
    /\ ~listening
    /\ listening' = TRUE
    /\ UNCHANGED <<autoInstrumented, proc, crashed, phase, input, ctx, route, res,
                   spans, logs, metrics, obs, timers>>

LegacyArrive(r, i) ==
    /\ listening /\ ~crashed
    /\ phase[r] = "idle"
    /\ IF r = 1 THEN TRUE ELSE phase[r - 1] # "idle"
    /\ LET w0 == Received(r, i)
           w == IF i.body = "none" THEN LegacyPipeline(w0, r) ELSE w0
       IN /\ Commit(w)
          /\ ctx' = [ctx EXCEPT ![r] = w0.active]
          /\ phase' = [phase EXCEPT ![r] =
                          IF i.body = "none" THEN PhaseAfter(w, r) ELSE "parsing"]
    /\ UNCHANGED <<listening, autoInstrumented, proc, crashed>>

LegacyDispatch(r) ==
    /\ ~crashed
    /\ phase[r] = "parsing"
    /\ LET w == LegacyPipeline(World(ctx[r]), r)
       IN /\ Commit(w)
          /\ phase' = [phase EXCEPT ![r] = PhaseAfter(w, r)]
    /\ UNCHANGED <<listening, autoInstrumented, proc, crashed, ctx>>

LegacyTimerFire(r) ==
    /\ ~crashed
    /\ phase[r] = "suspended"
    /\ LET t == timers[r]
           w0 == [AtStage(World(ResumeContext(t)), "continuation")
                     EXCEPT !.timers[r] = NoTimer]
           w == LegacyContinuation(w0, r, t.kind)
       IN /\ Commit(w)
          /\ crashed' = w.exc
          /\ phase' = [phase EXCEPT ![r] = IF w.exc THEN "crashed" ELSE "done"]
    /\ UNCHANGED <<listening, autoInstrumented, proc, ctx>>

LegacyNext ==
    \/ LegacyListen
    \/ \E r \in Reqs, i \in Inputs : LegacyArrive(r, i)
    \/ \E r \in Reqs : LegacyDispatch(r)
    \/ \E r \in Reqs : LegacyTimerFire(r)

LegacySpec == Init /\ [][LegacyNext]_vars

\* The request identifiers the pipeline recorded for request r: the
\* http.request_id attribute of its active span and the requestId of its
\* request-start log records.
RecordedRequestIds(r) ==
    (IF ctx[r] # NoSpan /\ "http.request_id" \in DOMAIN spans[ctx[r]].attributes
     THEN {spans[ctx[r]].attributes["http.request_id"]}
     ELSE {})
    \cup {logs[r][k].attributes["requestId"] : k \in LogsAt(r, "entry")}

\* C22: the request identifier recorded for a request is its X-Request-ID
\* header when it has one, and otherwise an identifier generated for that
\* request alone, never the placeholder 'none' or 'unknown'.
C22_RequestIdIsHeaderOrGenerated ==
    \A r \in Reqs : \A id \in RecordedRequestIds(r) :
        IF ~Falsy(input[r].requestId)
        THEN id = input[r].requestId
        ELSE /\ id \notin {"none", "unknown"}
             /\ \A q \in Reqs \ {r} : id \notin RecordedRequestIds(q)

\* C23: every answered request has a request-start log record, and it is the
\* first record of the request: no record of a route handler or of the
\* error-handling middleware precedes it.
C23_StartLogPrecedesHandlers ==
    \A r \in Reqs :
        Finalized(r) =>
            /\ Cardinality(LogsAt(r, "entry")) = 1
            /\ logs[r][1].stage = "entry"
            /\ logs[r][1].body = "Incoming HTTP request"

----------------------------------------------------------------------------
(* The helper middlewares: loggerHelper.createLoggingMiddleware (logger.js) *)
(* and metricsHelper.createMetricsMiddleware (metrics helper), installed on *)
(* an application in one order or the other. Each replaces res.end by a     *)
(* function that calls the res.end it found; res[r].layers lists the        *)
(* replacements in installation order, so the last one is called first.     *)

\* The arguments of a call of res.end.
EndArgs(chunk, encoding, callback) ==
    [chunk |-> chunk, encoding |-> encoding, callback |-> callback]

\* The calls of res.end a handler makes, by argument position: none, a
\* body, a body and a completion callback, a completion callback third.
FinalizeCalls ==
    {EndArgs(Undefined, Undefined, Undefined),
     EndArgs("body", "utf8", Undefined),
     EndArgs("body", "utf8", "cb"),
     EndArgs(Undefined, Undefined, "cb")}

\* The status codes a handler answers with.
FinalizeStatuses == {200, 400, 404}

\* The two installation orders.
InstallOrders == {<<"logging", "metrics">>, <<"metrics", "logging">>}

\* The requests sent to the application: with and without X-Request-ID.
HelperInputs ==
    {Request("GET", "/", "none", Undefined, Undefined, Undefined, "none"),
     Request("GET", "/", "none", Undefined, Undefined, "test_1", "none")}

\* What traceFormat writes into every record: info.service, info.version,
\* info.environment, with the process's default environment.
ServiceInfo ==
    [service |-> "otel-http-server", version |-> "1.0.0",
     environment |-> "development"]

\* winston's logger.log(level, message, meta) with traceFormat: the ids and
\* the flags of the active span, then the service information, are written
\* over the record built from meta.
HelperLog(w, r, level, message, meta) ==
    LET span == GetActiveSpan(w)
        traceInfo == IF span # NoSpan
                     THEN [traceId |-> w.spans[span].traceId, spanId |-> span,
                           traceFlags |-> "sampled"]
                     ELSE EmptyObj
    IN [w EXCEPT !.logs[r] = Append(@,
            [level |-> level, body |-> message,
             attributes |-> Merge(Merge(meta, traceInfo), ServiceInfo),
             supplied |-> meta,
             stage |-> w.stage, active |-> w.active])]

\* req.get('X-Request-ID') || req.get('x-request-id') || 'unknown'
HelperRequestId(w, r) ==
    IF Falsy(w.input[r].requestId) THEN "unknown" ELSE w.input[r].requestId

\* loggerHelper.logRequestStart(req)
LogRequestStart(w, r) ==
    HelperLog(w, r, "info", "HTTP request started",
              [method |-> w.input[r].method, url |-> w.input[r].url,
               requestId |-> HelperRequestId(w, r)])

\* Mutant of LogRequestComplete: warn only above 400.
LogRequestCompleteAboveBadRequest(w, r) ==
    LET level == IF w.res[r].statusCode > 400 THEN "warn" ELSE "info"
    IN HelperLog(w, r, level, "HTTP request completed",
                 [method |-> w.input[r].method, url |-> w.input[r].url,
                  statusCode |-> w.res[r].statusCode,
                  requestId |-> HelperRequestId(w, r)])

\* loggerHelper.logRequestComplete(req, res, duration)
LogRequestComplete(w, r) ==
    LET level == IF w.res[r].statusCode >= 400 THEN "warn" ELSE "info"
    IN HelperLog(w, r, level, "HTTP request completed",
                 [method |-> w.input[r].method, url |-> w.input[r].url,
                  statusCode |-> w.res[r].statusCode,
                  requestId |-> HelperRequestId(w, r)])

\* Buffer.byteLength(chunk, encoding) of the bodies sent.
ByteLength(chunk) == IF chunk = "body" THEN 4 ELSE 0

\* `${Math.floor(statusCode / 100)}xx`
StatusClass(statusCode) == ToString(statusCode \div 100) \o "xx"

\* metricsHelper.recordHttpRequest(method, route, statusCode, duration,
\* requestSize, responseSize)
RecordHttpRequest(w, r, method, routePath, statusCode, requestSize, responseSize) ==
    LET labels == [method |-> method,
                   route |-> IF routePath = "" THEN "unknown" ELSE routePath,
                   status_code |-> ToString(statusCode),
                   status_class |-> StatusClass(statusCode)]
        w1 == MetricAdd(w, r, "http_requests_total", 1, labels)
        w2 == HistogramRecord(w1, r, "http_request_duration_ms", labels)
        w3 == IF requestSize > 0
              THEN HistogramRecord(w2, r, "http_request_size_bytes", labels)
              ELSE w2
    IN IF responseSize > 0
       THEN HistogramRecord(w3, r, "http_response_size_bytes", labels)
       ELSE w3

\* metricsHelper.recordActiveRequest(increment)
RecordActiveRequest(w, r, increment) ==
    MetricAdd(w, r, "http_requests_active", IF increment THEN 1 ELSE -1, EmptyObj)

\* The middleware createLoggingMiddleware returns, up to next().
LoggingMiddleware(w, r) ==
    LET w1 == IF Falsy(w.input[r].requestId)
              THEN [w EXCEPT !.input[r].requestId = GeneratedId(r)]
              ELSE w
        w2 == LogRequestStart(w1, r)
    IN [w2 EXCEPT !.res[r].layers = Append(@, "logging")]

\* Mutant of MetricsMiddleware: its replacement of res.end calls the
\* response's own end instead of the res.end it found.
MetricsMiddlewareDiscardingEnd(w, r) ==
    LET w1 == RecordActiveRequest(w, r, TRUE)
    IN [w1 EXCEPT !.res[r].layers = <<"metrics">>]

\* The middleware createMetricsMiddleware returns, up to next().
MetricsMiddleware(w, r) ==
    LET w1 == RecordActiveRequest(w, r, TRUE)
    IN [w1 EXCEPT !.res[r].layers = Append(@, "metrics")]

\* The response's own end, called with args.
RawEnd(w, r, args) ==
    [OriginalEnd(w, r) EXCEPT !.res[r].endArgs = Append(@, args)]

\* What a replacement declared function(chunk, encoding) passes on with
\* originalEnd.call(this, chunk, encoding).
Forwarded(args) == EndArgs(args.chunk, args.encoding, Undefined)

\* What the logging replacement does before calling the res.end it found.
LoggingEnd(w, r, args) == LogRequestComplete(w, r)

\* What the metrics replacement does before calling the res.end it found.
MetricsEnd(w, r, args) ==
    LET responseSize == IF args.chunk = Undefined THEN 0 ELSE ByteLength(args.chunk)
        routePath == RouteLabel(w, r)
        w1 == RecordHttpRequest(w, r, w.input[r].method, routePath,
                                w.res[r].statusCode, 0, responseSize)
    IN RecordActiveRequest(w1, r, FALSE)

\* res.end(args) as seen from the replacement installed depth-th: it runs,
\* then calls the one installed before it, down to the response's own end.
RECURSIVE LayeredEnd(_, _, _, _)
LayeredEnd(w, r, depth, args) ==
    IF depth = 0 THEN RawEnd(w, r, args)
    ELSE LET layer == w.res[r].layers[depth]
             w1 == IF layer = "logging" THEN LoggingEnd(w, r, args)
                   ELSE MetricsEnd(w, r, args)
         IN LayeredEnd(w1, r, depth - 1, Forwarded(args))

\* A request arrives at an application that installed the two middlewares
\* in the given order; both run, then the handler is entered.
HelperArrive(r, i, order) ==
    /\ phase[r] = "idle"
    /\ IF r = 1 THEN TRUE ELSE phase[r - 1] # "idle"
    /\ LET w0 == Received(r, i)
           first == IF order[1] = "logging" THEN LoggingMiddleware(w0, r)
                    ELSE MetricsMiddleware(w0, r)
           w == IF order[2] = "logging" THEN LoggingMiddleware(first, r)
                ELSE MetricsMiddleware(first, r)
       IN /\ Commit([w EXCEPT !.route[r] = MatchRoute(i.method, i.url)])
          /\ ctx' = [ctx EXCEPT ![r] = w0.active]
          /\ phase' = [phase EXCEPT ![r] = "handling"]
    /\ UNCHANGED <<listening, autoInstrumented, proc, crashed>>

\* The handler answers: res.statusCode = status, res.end(args).
HelperFinalize(r, status, args) ==
    /\ phase[r] = "handling"
    /\ LET w0 == [ResStatus(AtStage(World(ctx[r]), "finalize"), r, status)
                     EXCEPT !.res[r].finalizeArgs = Append(@, args)]
           w == LayeredEnd(w0, r, Len(w0.res[r].layers), args)
       IN /\ Commit(w)
          /\ phase' = [phase EXCEPT ![r] = "done"]
    /\ UNCHANGED <<listening, autoInstrumented, proc, crashed, ctx>>

HelperNext ==
    \/ \E r \in Reqs, i \in HelperInputs, order \in InstallOrders :
          HelperArrive(r, i, order)
    \/ \E r \in Reqs, status \in FinalizeStatuses, args \in FinalizeCalls :
          HelperFinalize(r, status, args)

HelperSpec == Init /\ [][HelperNext]_vars

\* A log record without what names its request: the generated request id
\* and the ids of the request's own span.
LogView(r, rec) ==
    [level |-> rec.level, body |-> rec.body,
     traced |-> "traceId" \in DOMAIN rec.attributes,
     requestId |-> IF rec.attributes["requestId"] = GeneratedId(r)
                   THEN "generated" ELSE rec.attributes["requestId"],
     statusCode |-> IF "statusCode" \in DOMAIN rec.attributes
                    THEN rec.attributes["statusCode"] ELSE 0]

LogViews(r) == [k \in DOMAIN logs[r] |-> LogView(r, logs[r][k])]

\* Requests r and q were the same request, answered the same way, by
\* applications that installed the two middlewares in different orders.
SameRequestOtherOrder(r, q) ==
    /\ phase[r] = "done" /\ phase[q] = "done"
    /\ res[r].layers # res[q].layers
    /\ input[r].method = input[q].method /\ input[r].url = input[q].url
    /\ (input[r].requestId = GeneratedId(r)) = (input[q].requestId = GeneratedId(q))
    /\ (input[r].requestId # GeneratedId(r) => input[r].requestId = input[q].requestId)
    /\ res[r].sent = res[q].sent
    /\ res[r].endArgs = res[q].endArgs

\* C24: with the logging and the metrics middleware both installed, in
\* either order, one res.end call of the handler gives one completion log
\* record, one recordHttpRequest observation, one active-request decrement
\* and one call of the response's own end; and the two orders leave the same
\* metric observations and the same log records.
C24_InterceptorsComposeInEitherOrder ==
    /\ \A r \in Reqs :
          phase[r] = "done" =>
              /\ Cardinality(LogsSaying(r, "HTTP request completed")) = 1
              /\ Cardinality(Observations(r, "http_requests_total", 1)) = 1
              /\ Cardinality(Observations(r, "http_request_duration_ms", 1)) = 1
              /\ Cardinality(Observations(r, "http_requests_active", -1)) = 1
              /\ Cardinality(Observations(r, "http_requests_active", 1)) = 1
              /\ res[r].ended = 1
    /\ \A r, q \in Reqs :
          SameRequestOtherOrder(r, q) =>
              /\ obs[r] = obs[q]
              /\ LogViews(r) = LogViews(q)

\* C24 witness: the same request was answered with a body by an application
\* with the logging middleware first and by one with the metrics middleware
\* first.
C24_Witness ==
    /\ SameRequestOtherOrder(1, 2)
    /\ res[1].layers = <<"logging", "metrics">>
    /\ res[2].layers = <<"metrics", "logging">>
    /\ res[1].endArgs[1].chunk = "body"
    /\ res[1].sent = 404

\* The messages of the errors thrown while serving request r, as the log
\* records of the catch blocks and of the error-handling middleware kept
\* them.
ThrownMessages(r) ==
    {logs[r][k].attributes["error"] :
        k \in {j \in DOMAIN logs[r] : "error" \in DOMAIN logs[r][j].attributes}}

\* Request r was answered on an error path.
AnsweredWithError(r) == Finalized(r) /\ res[r].sent >= 400

\* Requests r and q differ at most in the error thrown while serving them.
SameRequestOtherError(r, q) ==
    /\ input[r].method = input[q].method /\ input[r].url = input[q].url
    /\ input[r].body = input[q].body
    /\ input[r].name = input[q].name /\ input[r].email = input[q].email

\* C25: on every error path the response body is an error-category object
\* that does not depend on the thrown error: it holds no message of an error
\* thrown for the request, and two requests that differ in the thrown error
\* only and are answered with the same status get the same body.
C25_ErrorBodiesHideTheError ==
    \A r \in Reqs :
        AnsweredWithError(r) =>
            /\ Len(res[r].body) = 2 /\ res[r].body[1] = "error"
            /\ res[r].body[2] \notin ThrownMessages(r)
            /\ \A q \in Reqs :
                  (/\ AnsweredWithError(q) /\ SameRequestOtherError(r, q)
                   /\ res[q].sent = res[r].sent)
                      => res[q].body = res[r].body

\* C25 witness: two GET / requests were answered 500 after two different
\* errors, each kept in a log record.
C25_Witness ==
    /\ input[1].url = "/" /\ input[1].fault = "attrs" /\ AnsweredWithError(1)
    /\ input[2].url = "/" /\ input[2].fault = "respond" /\ AnsweredWithError(2)
    /\ ThrownMessages(1) # ThrownMessages(2)
    /\ ThrownMessages(1) # {} /\ ThrownMessages(2) # {}

----------------------------------------------------------------------------
(* The logging functions called directly: logWithTrace (server.js) and the *)
(* functions of loggerHelper (logger.js), with the first two arguments     *)
(* absent, null or proper values. A call either emits a record or throws   *)
(* to its caller.                                                          *)

\* JavaScript null.
Null == "<null>"

\* Reading a property of v throws a TypeError.
Nullish(v) == v \in {Undefined, Null}

\* An argument: absent, null, or a value of the type the function expects.
LogArguments == {Undefined, Null, "value"}

LoggingFunctions ==
    {"logWithTrace", "logRequestStart", "logRequestComplete",
     "logDatabaseOperation", "logUserOperation", "logValidationError",
     "logError", "logBusinessEvent", "logSecurityEvent"}

\* Whether fn(a, b, ...) throws:
\*   logRequestStart(req) reads req.get(...)
\*   logRequestComplete(req, res, duration) reads req.get(...), res.statusCode
\*   logDatabaseOperation(operation, table, ...) calls operation.toUpperCase()
\*   logError(error, context) reads error.message
\* the others only copy their arguments into the record ({...null} is {}).
LoggingThrows(fn, a, b) ==
    CASE fn = "logRequestStart" -> Nullish(a)
      [] fn = "logRequestComplete" -> Nullish(a) \/ Nullish(b)
      [] fn = "logDatabaseOperation" -> Nullish(a)
      [] fn = "logError" -> Nullish(a)
      [] OTHER -> FALSE

\* A direct call fn(a, b): the record is emitted, or the TypeError reaches
\* the caller, which does not catch it.
LoggingCall(fn, a, b) ==
    /\ ~crashed
    /\ Len(logs[Process]) < MaxLogCalls
    /\ IF LoggingThrows(fn, a, b)
       THEN /\ crashed' = TRUE
            /\ UNCHANGED logs
       ELSE /\ logs' = [logs EXCEPT ![Process] =
                           Append(@, [fn |-> fn, first |-> a, second |-> b])]
            /\ UNCHANGED crashed
    /\ UNCHANGED <<listening, autoInstrumented, proc, phase, input, ctx, route, res,
                   spans, metrics, obs, timers>>

LoggingNext ==
    \E fn \in LoggingFunctions, a \in LogArguments, b \in LogArguments :
        LoggingCall(fn, a, b)

LoggingSpec == Init /\ [][LoggingNext]_vars

\* C26: no logging function throws to its caller, whatever its arguments,
\* absent and null ones included.
C26_LoggingNeverThrows == ~crashed

----------------------------------------------------------------------------
(* Requests served with no span active *)

\* The world of a server that has served nothing yet.
FreshWorld(active) ==
    [input |-> [q \in Reqs |-> NoRequest], spans |-> EmptyObj,
     logs |-> [q \in {Process} \cup Reqs |-> <<>>], metrics |-> EmptyObj,
     obs |-> [q \in Reqs |-> <<>>], res |-> [q \in Reqs |-> NewResponse],
     route |-> [q \in Reqs |-> ""], timers |-> [q \in Reqs |-> NoTimer],
     active |-> active, stage |-> "entry", exc |-> FALSE, err |-> ""]

\* Request i served as request r with its HTTP server span active: the
\* outcome of the middleware chain and of the handler's synchronous part.
ServedWithSpan(r, i) ==
    Pipeline([FreshWorld(ServerSpan(r)) EXCEPT
                 !.input[r] = i,
                 !.spans = (ServerSpan(r) :> NewSpan(r, "http_server", "server",
                                                     ServerSpan(r), NoSpan, NoSpan))],
             r)

\* Request r was served with no span active and answered without a timer.
AnsweredWithoutSpan(r) ==
    /\ phase[r] = "done"
    /\ ctx[r] = NoSpan
    /\ LogsAt(r, "continuation") = {}

\* C27: a request served with no span active is answered, by the
\* instrumentation middleware and its handler, the error-handling middleware
\* or the 404 handler, with the status and body it gets with a span active;
\* it has the same log records, without trace id and span id, and the same
\* metric observations, and its response went through the instrumented end
\* whenever it entered the instrumentation middleware.
C27_NoActiveSpanDegradesToNoCorrelation ==
    \A r \in Reqs :
        AnsweredWithoutSpan(r) =>
            LET traced == ServedWithSpan(r, input[r])
            IN /\ Finalized(r)
               /\ res[r].sent = traced.res[r].sent
               /\ res[r].body = traced.res[r].body
               /\ obs[r] = traced.obs[r]
               /\ res[r].intercepted => CompletionObservations(r) # {}
               /\ Len(logs[r]) = Len(traced.logs[r])
               /\ \A k \in DOMAIN logs[r] :
                     /\ logs[r][k].body = traced.logs[r][k].body
                     /\ logs[r][k].severityNumber = traced.logs[r][k].severityNumber
                     /\ {"traceId", "spanId"} \cap DOMAIN logs[r][k].attributes = {}
                     /\ "traceId" \in DOMAIN traced.logs[r][k].attributes

\* C27 witness: with no span active, one request was answered by the 404
\* handler and one by the error-handling middleware.
C27_Witness ==
    /\ AnsweredWithoutSpan(1) /\ AnsweredWithoutSpan(2)
    /\ input[1].url = "/invalid/endpoint" /\ res[1].sent = 404
    /\ input[2].body = "malformed" /\ res[2].sent = 500
    /\ logs[1] # <<>> /\ logs[2] # <<>>

----------------------------------------------------------------------------
(* The label series of the in-flight gauge *)

\* The time series of http_requests_in_flight: its recorded label sets.
InFlightSeries ==
    {key[2] : key \in {k \in DOMAIN metrics : k[1] = "http_requests_in_flight"}}

\* Every request that arrived has been answered through the instrumented end.
AllCompleted ==
    \A r \in Reqs :
        phase[r] # "idle" =>
            phase[r] = "done" /\ Observations(r, "http_requests_in_flight", -1) # {}

\* C28: the in-flight decrement of a request has the label set of its
\* increment, and every series of http_requests_in_flight is back at 0 once
\* the requests are completed, requests of /api/users/:id included.
C28_InFlightSeriesReturnToZero ==
    /\ \A r \in Reqs :
          \A k \in Observations(r, "http_requests_in_flight", -1) :
              \E j \in Observations(r, "http_requests_in_flight", 1) :
                  j < k /\ obs[r][j].labels = obs[r][k].labels
    /\ AllCompleted =>
          \A labels \in InFlightSeries :
              metrics[<<"http_requests_in_flight", labels>>] = 0

----------------------------------------------------------------------------
(* The arguments the res.end replacements pass on *)

\* The handler of request r has called res.end through both replacements.
HelperAnswered(r) == phase[r] = "done" /\ Len(res[r].layers) = 2

\* C29: a finalize call that passes through the res.end replacements reaches
\* the response's own end exactly once, after the completion record and the
\* completion observations were made, with the arguments of the finalize
\* call: chunk, encoding and completion callback.
C29_FinalizeArgumentsAreForwarded ==
    \A r \in Reqs :
        HelperAnswered(r) =>
            /\ res[r].ended = 1
            /\ LogsSaying(r, "HTTP request completed") # {}
            /\ Observations(r, "http_requests_total", 1) # {}
            /\ Len(res[r].endArgs) = 1
            /\ res[r].endArgs[1] = res[r].finalizeArgs[1]

----------------------------------------------------------------------------
(* The user operation counter *)

\* The observations request r caused on user_operations_total.
UserOperationsOf(r) ==
    {k \in DOMAIN obs[r] : obs[r][k].instrument = "user_operations_total"}

\* Request r is not a user operation: GET /, GET /health, an unmatched route.
NotAUserOperation(r) ==
    /\ phase[r] # "idle"
    /\ MatchRoute(input[r].method, input[r].url) \in {"/", "/health", ""}

\* Request r is a POST /api/users answered with the given status.
CreateUserAnsweredWith(r, status) ==
    /\ input[r].method = "POST" /\ input[r].url = "/api/users"
    /\ res[r].sent = status

\* C30: no request increments user_operations_total more than once, and
\* never by another amount than 1; GET /, GET /health and unmatched requests
\* leave it alone; a POST /api/users answered 201 has incremented it once
\* with operation=create_user and status=success, one answered 400 once with
\* operation=create_user and status=validation_failed.
C30_UserOperationsCountedOnce ==
    \A r \in Reqs :
        /\ Cardinality(UserOperationsOf(r)) <= 1
        /\ UserOperationsOf(r) = Observations(r, "user_operations_total", 1)
        /\ NotAUserOperation(r) => UserOperationsOf(r) = {}
        /\ CreateUserAnsweredWith(r, 201) =>
              /\ Cardinality(UserOperations(r, "create_user", "success")) = 1
              /\ UserOperationsOf(r) = UserOperations(r, "create_user", "success")
        /\ CreateUserAnsweredWith(r, 400) =>
              /\ Cardinality(UserOperations(r, "create_user", "validation_failed")) = 1
              /\ UserOperationsOf(r) =
                    UserOperations(r, "create_user", "validation_failed")

\* C30 witness: one POST /api/users was answered 201 and counted as a
\* success, another was answered 400 and counted as a validation failure,
\* and the counter holds one of each.
C30_Witness ==
    /\ CreateUserAnsweredWith(1, 201) /\ CreateUserAnsweredWith(2, 400)
    /\ phase[1] = "done" /\ phase[2] = "done"
    /\ UserOperations(1, "create_user", "success") # {}
    /\ UserOperations(2, "create_user", "validation_failed") # {}
    /\ metrics[<<"user_operations_total",
                 [operation |-> "create_user", status |-> "success"]>>] = 1
    /\ metrics[<<"user_operations_total",
                 [operation |-> "create_user", status |-> "validation_failed"]>>] = 1

----------------------------------------------------------------------------
(* The missing field reported by the validation branch *)

\* The 'User creation validation failed' records of request r.
ValidationFailureLogs(r) == LogsSaying(r, "User creation validation failed")

\* The field the validation branch of request r reported, as the record's
\* missingField and as the span's validation.missing_fields.
ReportsMissingField(r, field) ==
    /\ \A k \in ValidationFailureLogs(r) :
          logs[r][k].attributes.missingField = field
    /\ CreateUserSpan(r) \in DOMAIN spans
    /\ "validation.missing_fields" \in DOMAIN spans[CreateUserSpan(r)].attributes
    /\ spans[CreateUserSpan(r)].attributes["validation.missing_fields"] = field

\* C31: a POST /api/users that fails validation reports exactly one missing
\* field: name whenever the name is absent or empty, the email being missing
\* too or not, and email only when the name is present and the email is
\* absent or empty.
C31_MissingFieldIsNameFirst ==
    \A r \in Reqs :
        ValidationFailureLogs(r) # {} =>
            /\ Cardinality(ValidationFailureLogs(r)) = 1
            /\ Falsy(input[r].name) => ReportsMissingField(r, "name")
            /\ ~Falsy(input[r].name) =>
                  Falsy(input[r].email) /\ ReportsMissingField(r, "email")

\* C31 witness: a request with neither name nor email was reported as
\* missing its name, and one with a name and an empty email as missing its
\* email.
C31_Witness ==
    /\ input[1].name = Undefined /\ input[1].email = Undefined
    /\ ValidationFailureLogs(1) # {} /\ ReportsMissingField(1, "name")
    /\ input[2].name = "Dave" /\ Falsy(input[2].email)
    /\ ValidationFailureLogs(2) # {} /\ ReportsMissingField(2, "email")

----------------------------------------------------------------------------
(* The level of the completion record *)

\* The 'HTTP request completed' records of request r.
CompletionRecords(r) == LogsSaying(r, "HTTP request completed")

\* C32: the completion record logRequestComplete emits for an answered
\* request is of level warn exactly when the response was finalized with a
\* status code of 400 or more, of level info otherwise, and its statusCode
\* is the status code the response was finalized with.
C32_CompletionLevelFollowsStatus ==
    \A r \in Reqs :
        HelperAnswered(r) =>
            /\ Cardinality(CompletionRecords(r)) = 1
            /\ \A k \in CompletionRecords(r) :
                  /\ logs[r][k].level \in {"warn", "info"}
                  /\ logs[r][k].level = "warn" <=> res[r].sent >= 400
                  /\ logs[r][k].attributes.statusCode = res[r].sent

\* C32 witness: a response finalized with 400 has a warn record and one
\* finalized with 200 an info record.
C32_Witness ==
    /\ HelperAnswered(1) /\ res[1].sent = 400
    /\ \E k \in CompletionRecords(1) : logs[1][k].level = "warn"
    /\ HelperAnswered(2) /\ res[2].sent = 200
    /\ \E k \in CompletionRecords(2) : logs[2][k].level = "info"

----------------------------------------------------------------------------
(* Records emitted with attributes the caller chose: logWithTrace          *)
(* (server.js) and the winston logger with traceFormat (logger.js), called *)
(* inside a request, with or without an active span.                       *)

\* The keys a caller puts in the attributes of a record.
CallerKeys == {"traceId", "spanId", "userId", "service"}

\* The value a caller gives to a key: an id for the id keys, a string else.
CallerValue(key) ==
    IF key \in {"traceId", "spanId"} THEN SpanId(0, "caller") ELSE "caller"

\* The attribute objects callers pass.
CallerAttributes == {[key \in keys |-> CallerValue(key)] : keys \in SUBSET CallerKeys}

\* The two ways of emitting a record.
Emitters == {"logWithTrace", "logger.info"}

\* One record is emitted, through the given emitter, with the given
\* attributes, in the context of a request.
Emit(emitter, attributes) ==
    /\ Len(logs[Process]) < MaxLogCalls
    /\ LET w0 == Received(1, NoRequest)
           w == IF emitter = "logWithTrace"
                THEN LogWithTrace(w0, Process, SeverityNumber.INFO, "message",
                                  attributes)
                ELSE HelperLog(w0, Process, "info", "message", attributes)
       IN Commit(w)
    /\ UNCHANGED <<listening, autoInstrumented, proc, crashed, phase, ctx>>

EmitNext ==
    \E emitter \in Emitters, attributes \in CallerAttributes :
        Emit(emitter, attributes)

EmitSpec == Init /\ [][EmitNext]_vars

\* The keys of trace correlation.
TraceKeys == {"traceId", "spanId"}

\* C33: a record emitted while a span is active carries the trace id and
\* the span id of that span, whatever the caller passed under the keys
\* traceId and spanId, and carries every other attribute the caller passed,
\* with the value the caller gave it.
C33_ActiveSpanIdsWinOthersPass ==
    \A k \in DOMAIN logs[Process] :
        LET rec == logs[Process][k]
        IN rec.active # NoSpan =>
              /\ rec.attributes["traceId"] = spans[rec.active].traceId
              /\ rec.attributes["spanId"] = rec.active
              /\ \A key \in DOMAIN rec.supplied \ TraceKeys :
                    /\ key \in DOMAIN rec.attributes
                    /\ rec.attributes[key] = rec.supplied[key]

----------------------------------------------------------------------------
(* Shutdown on a signal: tracing.js, and the earlier tracing module that   *)
(* exports spans to the console.                                           *)

\* The telemetry items a run accepts.
MaxTelemetry == 4

\* The two tracing modules.
TracingModules == {"tracing.js", "tracing (console exporter)"}

Signals == {"SIGTERM", "SIGINT"}

\* sdk.shutdown(): the call returns a promise; the flush of the batch
\* processors runs in later callbacks.
SdkShutdown(p) == [p EXCEPT !.shutdown = "pending"]

\* process.exit(0): the process ends in the running callback; what is still
\* buffered stays unexported.
ProcessExit(p) == [p EXCEPT !.exited = TRUE]

\* shutdownOtel() of tracing.js: sdk.shutdown() is called and not awaited.
ShutdownOtel(p) == SdkShutdown(p)

\* Telemetry is accepted: a span ends or a record is emitted, and waits in
\* its batch processor.
Accept ==
    /\ ~proc.exited /\ proc.shutdown = "none"
    /\ proc.buffered + proc.exported < MaxTelemetry
    /\ proc' = [proc EXCEPT !.buffered = @ + 1]
    /\ UNCHANGED <<listening, autoInstrumented, crashed, phase, input, ctx, route,
                   res, spans, logs, metrics, obs, timers>>

\* The scheduled export of a batch processor.
ExportBatch ==
    /\ ~proc.exited /\ proc.shutdown = "none"
    /\ proc.buffered > 0
    /\ proc' = [proc EXCEPT !.exported = @ + proc.buffered, !.buffered = 0]
    /\ UNCHANGED <<listening, autoInstrumented, crashed, phase, input, ctx, route,
                   res, spans, logs, metrics, obs, timers>>

\* The process receives a signal. tracing.js handles SIGTERM and SIGINT
\* with shutdownOtel(); process.exit(0). The earlier module handles SIGTERM
\* with sdk.shutdown().then().catch().finally(exit) and has no SIGINT
\* handler, so that SIGINT ends the process at once.
Signal(sig) ==
    /\ ~proc.exited /\ proc.signal = "none"
    /\ LET p == [proc EXCEPT !.signal = sig]
       IN proc' = IF proc.module = "tracing.js"
                  THEN ProcessExit(ShutdownOtel(p))
                  ELSE IF sig = "SIGTERM" THEN SdkShutdown(p)
                  ELSE ProcessExit(p)
    /\ UNCHANGED <<listening, autoInstrumented, crashed, phase, input, ctx, route,
                   res, spans, logs, metrics, obs, timers>>

\* The promise of sdk.shutdown() settles: the processors have flushed.
ShutdownSettles ==
    /\ ~proc.exited /\ proc.shutdown = "pending"
    /\ proc' = [proc EXCEPT !.exported = @ + proc.buffered, !.buffered = 0,
                            !.shutdown = "done"]
    /\ UNCHANGED <<listening, autoInstrumented, crashed, phase, input, ctx, route,
                   res, spans, logs, metrics, obs, timers>>

\* .finally(() => process.exit(0)) of the earlier module.
ExitAfterShutdown ==
    /\ ~proc.exited /\ proc.shutdown = "done"
    /\ proc.module # "tracing.js"
    /\ proc' = ProcessExit(proc)
    /\ UNCHANGED <<listening, autoInstrumented, crashed, phase, input, ctx, route,
                   res, spans, logs, metrics, obs, timers>>

ShutdownInit == ServerInit /\ proc \in {NewProcess(module) : module \in TracingModules}

ShutdownNext ==
    \/ Accept
    \/ ExportBatch
    \/ \E sig \in Signals : Signal(sig)
    \/ ShutdownSettles
    \/ ExitAfterShutdown

ShutdownSpec == ShutdownInit /\ [][ShutdownNext]_vars

\* C34: a process that has exited on SIGTERM or SIGINT has completed the
\* shutdown of its SDK before, and has exported all the telemetry it had
\* accepted.
C34_ExitOnlyAfterShutdown ==
    (proc.exited /\ proc.signal \in Signals) =>
        proc.shutdown = "done" /\ proc.buffered = 0

====
